---- MODULE Spec2Model ----
(***************************************************************************)
(* GravityClaw: the agent loop (src/src/agent.ts, lines 90-319) with the   *)
(* stores it writes (memory.ts, vector-memory.ts, usage.ts) and the tool   *)
(* registry it reads (registry.ts).                                         *)
(*                                                                          *)
(* runAgent is an async function on a single-threaded event loop: the code  *)
(* between two awaits runs atomically, so there is one action per await     *)
(* continuation (the return of recallMemories, of a model call, of a tool   *)
(* executor, of the summarization call) and one per background task.        *)
(*                                                                          *)
(* Spec is one runAgent invocation with its background tasks; MemorySpec,  *)
(* further down, is the memory interface (memory.ts, vector-memory.ts)     *)
(* called on its own, with the table's id and created_at columns;          *)
(* UsageSpec and RegistrySpec are usage.ts and registry.ts called on their *)
(* own; ConcSpec is two runAgent invocations side by side; BotSpec is the  *)
(* Telegram bot (bot.ts): its middleware, its handlers, the turns they     *)
(* start and clearHistory; PairSpec is loadHistory and the summarization   *)
(* prune on stored transcripts of earlier turns; SummSpec is Spec on a     *)
(* conversation left long by failed summarizations; ToolSpec is one        *)
(* runAgent invocation with the writing tools (learn_fact, set_reminder);  *)
(* IsoSpec is ConcSpec with the ids of the archive's points; SchedSpec is  *)
(* the reminder scheduler (scheduler.ts).                                  *)
(*                                                                          *)
(* Environment (not code of the repository):                                *)
(*  - the model gateway answers a call with a failure or a response; a      *)
(*    response requests tool calls only when the call carried tool schemas, *)
(*    and the request ids it hands out are distinct within one turn;        *)
(*  - a tool executor returns a text or throws;                             *)
(*  - the embedding / Qdrant calls succeed or fail; a PUT of a point        *)
(*    replaces the point that holds its id;                                 *)
(*  - a reminder send returns or throws, after any time; the interval      *)
(*    timer fires whether or not the callback before it has returned;      *)
(*  - the bot library, under bot.start(), takes the next update when the    *)
(*    handler of the one before has returned.                               *)
(***************************************************************************)
EXTENDS Integers, Sequences, FiniteSets, TLC

\* ---------------------------------------------------------------- bounds
\* Number of runAgent invocations (turn slots); they may overlap in time.
MaxTurns == 2
\* Longest tool-call list in one model response.
MaxToolCalls == 2
\* Firings of the scheduler's interval timer in one behaviour.
MaxPolls == 3
\* The configured iteration ceiling (env MAX_AGENT_ITERATIONS, config.ts:60).
MAX_AGENT_ITERATIONS == 2

\* ------------------------------------------------------ program constants
MAX_HISTORY == 30
SUMMARIZE_THRESHOLD == 40
KEEP_LAST == 15
MIN_QUERY_LEN == 5
MIN_MEMORY_LEN == 10
VECTOR_MEMORY_ENABLED == TRUE

Turns == 1..MaxTurns
Chats == {1, 2}

\* Texts are abstract tokens; TrimLen gives the length of the trimmed text.
NullContent == "<null>"
NoResponse == "(No response)"
SafetyMsg == "safety limit message"
SystemPrompt == "SYSTEM_PROMPT"
NoSummary == "<no summary>"
UserTexts == {"hi", "what did we plan"}
AnswerTexts == {"", "here is the answer", "{\"error\": 1}"}
ToolResultText == "tool result"
ToolErrorText == "Error: executor failed"
ToolNotFoundText == "Error: tool not found"

TrimLen(s) ==
    CASE s = "" -> 0
      [] s = "hi" -> 2
      [] OTHER -> 16

\* content.startsWith('{"error"') || content.startsWith('[{"type"')
LooksLikeToolJson(s) == s \in {"{\"error\": 1}", "[{\"type\": 1}]"}

\* ------------------------------------------------------------ tool registry
\* registry.ts: the names the tool modules register at start-up.
RegisteredTools == {"get_current_time"}
ToolNames == RegisteredTools \cup {"no_such_tool"}

\* What Map.get gives for a missing key: a value no ToolDefinition equals.
Undefined == [undefined |-> TRUE]

\* A ToolDefinition: its name, description and parameter schema (the
\* executor is what ToolReturns models).
ToolDefinition(name, description) ==
    [name |-> name, description |-> description,
     parameters |-> [type |-> "object", of |-> name]]

\* tools.has(name) on the Map with entries reg
HasTool(reg, name) == \E i \in 1..Len(reg) : reg[i].name = name

\* registerTool without the test for a name already registered: Map.set
\* replaces the tool bound to the name.
registerTool_Overwrites(reg, tool) ==
    IF HasTool(reg, tool.name)
    THEN [tools |-> [i \in 1..Len(reg) |->
                        IF reg[i].name = tool.name THEN tool ELSE reg[i]],
          threw |-> FALSE]
    ELSE [tools |-> Append(reg, tool), threw |-> FALSE]

\* registry.ts:26-32 registerTool: the Map afterwards, and whether it threw.
registerTool(reg, tool) ==
    IF HasTool(reg, tool.name)
    THEN [tools |-> reg, threw |-> TRUE]
    ELSE [tools |-> Append(reg, tool), threw |-> FALSE]

\* The tools Map once the tool modules are imported: its entries in
\* insertion order.
StartupTools == <<ToolDefinition("get_current_time", "Get the current time")>>

\* ------------------------------------------------------------------ JSON
\* Argument texts a model may send: empty (replaced by "{}"), or malformed.
ArgTexts == {"", "{oops"}
JsonParses(a) == a # "{oops"
\* JSON.parse(toolCall.function.arguments || "{}") succeeds
ArgsParse(a) == JsonParses(IF a = "" THEN "{}" ELSE a)

\* -------------------------------------------------------------- messages
\* An in-memory ChatMessage.  tool_calls is <<>> when the field is absent;
\* tool_call_id is NoId when the field is absent.  A tool-call request is
\* [id, name, args].
NoId == 0
UnknownId == -1

Msg(role, content, calls, callId) ==
    [role |-> role, content |-> content, tool_calls |-> calls, tool_call_id |-> callId]

UserMsg(text) == Msg("user", text, <<>>, NoId)
AssistantText(text) == Msg("assistant", text, <<>>, NoId)
AssistantCalls(content, calls) == Msg("assistant", content, calls, NoId)
ToolMsg(callId, content) == Msg("tool", content, <<>>, callId)
SystemMsg == Msg("system", SystemPrompt, <<>>, NoId)

\* ----------------------------------------------------- conversation store
\* A row of conversation_history.  tool_calls holds the JSON text of the
\* request list (<<>> stands for SQL NULL: an empty list is never written),
\* tool_name holds the tool_call_id.  "by" is a history variable: the turn
\* that inserted the row (0: a row that was in the database at start-up).
Row(role, content, toolName, callsJson, by) ==
    [role |-> role, content |-> content, tool_name |-> toolName,
     tool_calls |-> callsJson, by |-> by]

\* memory.ts saveMessage: the row inserted for a message.
RowOf(m, by) ==
    CASE m.role \in {"user", "system"} -> Row(m.role, m.content, NoId, <<>>, by)
      [] m.role = "assistant" ->
            Row("assistant",
                IF m.content = NullContent THEN "" ELSE m.content,
                NoId,
                IF Len(m.tool_calls) > 0 THEN m.tool_calls ELSE <<>>,
                by)
      [] m.role = "tool" -> Row("tool", m.content, m.tool_call_id, <<>>, by)

\* memory.ts saveMessage(chatId, message), as a function of the table.
saveMessage(st, c, m, by) == [st EXCEPT ![c] = Append(@, RowOf(m, by))]

\* saveMessages inserting the first message only.
saveMessages_FirstOnly(st, c, ms, by) ==
    IF ms = <<>> THEN st ELSE saveMessage(st, c, Head(ms), by)

\* saveMessages inserting the messages last to first.
saveMessages_Reversed(st, c, ms, by) ==
    [st EXCEPT ![c] = @ \o [i \in 1..Len(ms) |-> RowOf(ms[Len(ms) + 1 - i], by)]]

RECURSIVE saveMessages(_, _, _, _)
\* memory.ts saveMessages: one transaction inserting the messages in order.
saveMessages(st, c, ms, by) ==
    IF ms = <<>> THEN st
    ELSE saveMessages(saveMessage(st, c, Head(ms), by), c, Tail(ms), by)

\* memory.ts loadHistory rows.map: the message rebuilt from a row.
MsgOf(r) ==
    IF r.role = "assistant" /\ r.tool_calls # <<>>
    THEN AssistantCalls(IF r.content = "" THEN NullContent ELSE r.content, r.tool_calls)
    ELSE IF r.role = "tool"
    THEN ToolMsg(IF r.tool_name = NoId THEN UnknownId ELSE r.tool_name, r.content)
    ELSE Msg(r.role, r.content, <<>>, NoId)

\* memory.ts loadHistory: ORDER BY created_at ASC LIMIT MAX_HISTORY.
loadHistory(st, c) ==
    LET n == IF Len(st[c]) < MAX_HISTORY THEN Len(st[c]) ELSE MAX_HISTORY
    IN  [i \in 1..n |-> MsgOf(st[c][i])]

countMessages(st, c) == Len(st[c])

\* pruneHistory keeping the keepLast oldest rows.
pruneHistory_KeepsOldest(st, c, keepLast) ==
    LET n == Len(st[c])
    IN  IF n <= keepLast THEN st
        ELSE [st EXCEPT ![c] = SubSeq(@, 1, keepLast)]

\* memory.ts pruneHistory: delete all but the keepLast newest rows.
pruneHistory(st, c, keepLast) ==
    LET n == Len(st[c])
    IN  IF n <= keepLast THEN st
        ELSE [st EXCEPT ![c] = SubSeq(@, n - keepLast + 1, n)]

\* A row of chat_summaries.
SummaryRow(c, text) == [chat_id |-> c, summary |-> text]

\* memory.ts getChatSummary: row?.summary || null
getChatSummary(sm, c) ==
    IF \E r \in sm : r.chat_id = c
    THEN LET row == CHOOSE r \in sm : r.chat_id = c
         IN  IF row.summary = "" THEN NoSummary ELSE row.summary
    ELSE NoSummary

\* updateChatSummary as a plain INSERT.
updateChatSummary_Insert(sm, c, text) == sm \cup {SummaryRow(c, text)}

\* updateChatSummary writing the new text after the old one.
updateChatSummary_Append(sm, c, text) ==
    IF \E r \in sm : r.chat_id = c
    THEN {IF r.chat_id = c THEN SummaryRow(c, r.summary \o text) ELSE r : r \in sm}
    ELSE sm \cup {SummaryRow(c, text)}

\* memory.ts updateChatSummary: INSERT ... ON CONFLICT(chat_id) DO UPDATE SET
\* summary = EXCLUDED.summary.
updateChatSummary(sm, c, text) ==
    IF \E r \in sm : r.chat_id = c
    THEN {IF r.chat_id = c THEN SummaryRow(c, text) ELSE r : r \in sm}
    ELSE sm \cup {SummaryRow(c, text)}

\* Rows a database may hold at start-up: n alternating user/assistant rows.
OldRows(n) ==
    [i \in 1..n |-> IF i % 2 = 1 THEN Row("user", "old question", NoId, <<>>, 0)
                                  ELSE Row("assistant", "old answer", NoId, <<>>, 0)]

\* ---------------------------------------------------------- vector memory
\* Similarity of a stored text to a query, in tenths (the embedding model's
\* answer): here a text is similar to itself only.
MIN_SCORE == 4
Score(query, content) == IF query = content THEN 10 ELSE 3

\* Memorable without the test on how the content starts.
Memorable_AnyShape(content) ==
    /\ content # ""
    /\ TrimLen(content) >= MIN_MEMORY_LEN

\* vector-memory.ts rememberMessage, the part before its first await:
\* TRUE when the message is embedded and written (a background task starts).
Memorable(content) ==
    /\ content # ""
    /\ TrimLen(content) >= MIN_MEMORY_LEN
    /\ ~LooksLikeToolJson(content)

MemTask(c, role, content, by) ==
    [chatId |-> c, role |-> role, content |-> content, by |-> by]

\* The background tasks after rememberMessage(c, role, content) was called.
rememberMessage(tasks, c, role, content, by) ==
    IF Memorable(content) THEN tasks \cup {MemTask(c, role, content, by)} ELSE tasks

\* RecallHits with a search request that carries no chatId filter.
RecallHits_AnyChat(arch, c, query) ==
    {r \in arch : Score(query, r.content) >= MIN_SCORE}

\* vector-memory.ts recallMemories after a successful search: the records
\* Qdrant returns (filter on chatId, score_threshold; at most limit of them,
\* which the small archives here never reach), filtered again on the score.
RecallHits(arch, c, query) ==
    {r \in arch : r.chatId = c /\ Score(query, r.content) >= MIN_SCORE}

\* vector-memory.ts recallMemories: the records its entries are built from
\* (found: the embedding and the search succeeded).
recallMemories(arch, c, query, found) ==
    IF query = "" \/ TrimLen(query) < MIN_QUERY_LEN THEN {}
    ELSE IF found THEN RecallHits(arch, c, query)
    ELSE {}

\* ------------------------------------------------------------ usage ledger
UsageRow(by) == [model |-> "LLM_MODEL", by |-> by]
\* trackUsage overwriting the newest row of the chat instead of adding one.
trackUsage_ReplacesNewest(led, c, by) ==
    IF led[c] = <<>>
    THEN [led EXCEPT ![c] = <<UsageRow(by)>>]
    ELSE [led EXCEPT ![c] = [@ EXCEPT ![Len(@)] = UsageRow(by)]]

\* usage.ts trackUsage: one INSERT into usage_log.
trackUsage(led, c, by) == [led EXCEPT ![c] = Append(@, UsageRow(by))]

\* ----------------------------------------------------------- tool executors
\* The objects a model may send as the arguments of learn_fact and
\* set_reminder: with and without a chatId of its own choosing.
FactTexts == {"likes tea"}
ReminderTexts == {"call mum"}
TimeTexts == {"in 5 minutes", "soon"}
SuppliedChatIds == {2}
ArgObjects ==
    { [fact |-> f] : f \in FactTexts }
    \cup { [fact |-> f, chatId |-> c] : f \in FactTexts, c \in SuppliedChatIds }
    \cup { [message |-> m, time |-> w] : m \in ReminderTexts, w \in TimeTexts }
    \cup { [message |-> m, time |-> "in 5 minutes", chatId |-> c] :
              m \in ReminderTexts, c \in SuppliedChatIds }

Quoted(s) == "\"" \o s \o "\""
\* The JSON text of an argument object, its keys in the order above.
JsonText(o) ==
    "{"
    \o (IF "fact" \in DOMAIN o THEN "\"fact\": " \o Quoted(o.fact) ELSE "")
    \o (IF "message" \in DOMAIN o
        THEN "\"message\": " \o Quoted(o.message) \o ", \"time\": " \o Quoted(o.time)
        ELSE "")
    \o (IF "chatId" \in DOMAIN o THEN ", \"chatId\": " \o ToString(o.chatId) ELSE "")
    \o "}"

\* The object with no property.
EmptyObject == [k \in {} |-> 0]

\* JSON.parse of an argument text that parses.
JsonParse(a) ==
    IF a = "{}" THEN EmptyObject ELSE CHOOSE o \in ArgObjects : JsonText(o) = a

\* The spread with the conversation id first: { chatId, ...functionArgs }.
Spread_ArgsLast(functionArgs, chatId) ==
    [k \in DOMAIN functionArgs \cup {"chatId"} |->
        IF k \in DOMAIN functionArgs THEN functionArgs[k] ELSE chatId]

\* agent.ts:238: { ...functionArgs, chatId }, the later property wins.
Spread(functionArgs, chatId) ==
    [k \in DOMAIN functionArgs \cup {"chatId"} |->
        IF k = "chatId" THEN chatId ELSE functionArgs[k]]

\* agent.ts:226 and 238: the object the executor of a tool call is given by
\* a turn of conversation chatId.
ExecutorInput(toolCall, chatId) ==
    Spread(JsonParse(IF toolCall.args = "" THEN "{}" ELSE toolCall.args), chatId)

\* memory.ts saveUserFact: one INSERT into user_facts.
saveUserFact(fs, chatId, fact) ==
    Append(fs, [chat_id |-> ToString(chatId), fact |-> fact])

\* Seconds from now to the time a reminder text names; NoDate when
\* parseReminderTime gives null.
NoDate == -1
parseReminderTime(input, now) == IF input = "in 5 minutes" THEN now + 300 ELSE NoDate

\* scheduler.ts scheduleTask: one INSERT into scheduled_tasks.
scheduleTask(ts, chatId, message, timestamp) ==
    Append(ts, [id |-> Len(ts) + 1, chat_id |-> ToString(chatId), message |-> message,
                scheduled_at |-> timestamp, is_completed |-> 0])

\* The executors of memory-tools.ts and reminders.ts applied to input: the
\* tables after the executor returned.  The other tools write neither.
Execute(name, input, fs, ts, now) ==
    CASE name = "learn_fact" /\ "fact" \in DOMAIN input ->
           [facts |-> IF input.chatId = 0 THEN fs
                      ELSE saveUserFact(fs, input.chatId, input.fact),
            tasks |-> ts]
      [] name = "set_reminder" /\ "time" \in DOMAIN input ->
           [facts |-> fs,
            tasks |-> IF input.chatId = 0 \/ parseReminderTime(input.time, now) = NoDate
                      THEN ts
                      ELSE scheduleTask(ts, input.chatId, input.message,
                                        parseReminderTime(input.time, now))]
      [] OTHER -> [facts |-> fs, tasks |-> ts]

\* ------------------------------------------------------------ model gateway
\* An error of a model call: an HTTP status (0: none) and the fragments its
\* message contains.
ModelErrors ==
    { [status |-> 400, fragments |-> {}],
      [status |-> 500, fragments |-> {"Function"}],
      [status |-> 500, fragments |-> {}] }

ToLower(f) == IF f = "Function" THEN "function" ELSE f

\* isToolUnsupportedError without toLowerCase.
isToolUnsupportedError_CaseSensitive(err) ==
    \/ err.status \in {404, 400, 403}
    \/ \E f \in err.fragments :
          f \in {"tool", "function", "not supported", "not a valid"}

\* agent.ts isToolUnsupportedError
isToolUnsupportedError(err) ==
    \/ err.status \in {404, 400, 403}
    \/ \E f \in err.fragments :
          ToLower(f) \in {"tool", "function", "not supported", "not a valid"}

\* The identifier the gateway gives the k-th request of a turn's i-th
\* iteration: distinct within the turn.
CallId(i, k) == (i - 1) * MaxToolCalls + k

Request(id, name, args) == [id |-> id, name |-> name, args |-> args]

\* The tool-call lists a response of iteration i may carry.
ToolCallLists(i) ==
    UNION { { [k \in 1..n |-> Request(CallId(i, k), f[k][1], f[k][2])] :
                f \in [1..n -> ToolNames \X ArgTexts] } : n \in 1..MaxToolCalls }

\* The requests of a response of iteration i that asks for writing tools:
\* learn_fact and set_reminder with any of the argument texts.
WriteCallLists(i) ==
    UNION { { [k \in 1..n |-> Request(CallId(i, k), f[k][1], f[k][2])] :
                f \in [1..n -> { <<"learn_fact", JsonText(o)>> :
                                    o \in {a \in ArgObjects : "fact" \in DOMAIN a} }
                               \cup { <<"set_reminder", JsonText(o)>> :
                                    o \in {a \in ArgObjects : "time" \in DOMAIN a} }] } :
            n \in 1..MaxToolCalls }

\* ------------------------------------------------------------------- state
VARIABLES
    tools,               \* registry.ts:24, the Map's entries in insertion order
    modelSupportsTools,  \* agent.ts:90, process-wide
    store,               \* conversation_history, per chat: the rows in insertion order
    summaries,           \* chat_summaries: the set of its rows
    usage,               \* usage_log, per chat: the rows in insertion order
    archive,             \* Qdrant collection: the set of memory records
    bg,                  \* rememberMessage tasks started and not yet finished
    turn,                \* per runAgent invocation: its locals and its position
    table,               \* conversation_history with its id, chat_id and created_at
                         \* columns, and sqlite_sequence: [rows, seq]
    clock,               \* unixepoch(): the wall clock, in seconds
    last,                \* the last call of the memory interface and its result
    bot,                 \* bot.ts: the updates received, the handlers run, the
                         \* replies sent, and the turn a handler is awaiting
    facts,               \* user_facts: the rows in insertion order
    scheduled_tasks,     \* scheduled_tasks: the rows in insertion order
    polls,               \* scheduler.ts: per firing of the interval timer, the
                         \* checkDueTasks call it started and its position
    delivered            \* the reminders the transports accepted, in order

vars ==
    <<tools, modelSupportsTools, store, summaries, usage, archive, bg, turn, table, clock,
      last, bot, facts, scheduled_tasks, polls, delivered>>
\* The tables the tool executors write.
toolVars == <<facts, scheduled_tasks>>
\* The state of the reminder scheduler besides its table.
schedVars == <<polls, delivered>>
\* The variables no step of runAgent but the return of an executor changes.
memVars == <<tools, table, clock, last, bot, toolVars, schedVars>>
\* The variables no call of the memory interface on its own changes.
agentVars == <<tools, modelSupportsTools, store, usage, bg, turn, bot, toolVars, schedVars>>

\* getTool giving the first tool of the Map whatever the name.
getTool_FirstTool(name) == IF tools # <<>> THEN tools[1] ELSE Undefined

\* registry.ts:34-36: tools.get(name)
getTool(name) ==
    IF \E i \in 1..Len(tools) : tools[i].name = name
    THEN tools[CHOOSE i \in 1..Len(tools) : tools[i].name = name]
    ELSE Undefined

\* registry.ts:41-50: one schema per value of the Map, in its order
getAllToolSchemas ==
    [i \in 1..Len(tools) |->
        [type |-> "function",
         function |-> [name |-> tools[i].name,
                       description |-> tools[i].description,
                       parameters |-> tools[i].parameters]]]

\* The interval timer has not fired yet: no checkDueTasks call was started.
NoPoll == [pc |-> "idle", due |-> <<>>]
NoPolls == [p \in 1..MaxPolls |-> NoPoll]

\* The bot before its first update.
NoBot ==
    [updates |-> 0, from |-> 0, handled |-> 0, texts |-> 0, replies |-> <<>>,
     awaiting |-> {}]

\* No call of the memory interface yet; n counts the calls.
NoCall == [op |-> "none", n |-> 0]

NoReq == [messages |-> <<>>, tools |-> FALSE]
NoResult == [kind |-> "none", value |-> ""]
Returned(text) == [kind |-> "return", value |-> text]
Thrown(cause) == [kind |-> "throw", value |-> cause]

\* A turn slot before runAgent is called.  calls, retries and toolResps are
\* history variables: the model calls the loop issued (retries included), the
\* no-tools retries among them, the responses that requested tool calls, and
\* the summarization calls issued.
IdleTurn ==
    [pc |-> "idle", chatId |-> 0, userText |-> "", skipStorage |-> FALSE,
     history |-> <<>>, messages |-> <<>>,
     memoryContext |-> [summary |-> NoSummary, recalled |-> {}],
     iterations |-> 0, useTools |-> FALSE, req |-> NoReq,
     pending |-> <<>>, batch |-> <<>>, finalText |-> "",
     result |-> NoResult, calls |-> 0, retries |-> 0, toolResps |-> 0,
     summCalls |-> 0]

\* Rows of chat 2 at start-up: one short of the number at which a user row
\* and an answer cross the summarization threshold.  Chat 1 starts empty.
InitialRows == SUMMARIZE_THRESHOLD - 1

\* Memory records written by earlier turns: one per chat, with the text of
\* the long utterance.
OldArchive == {MemTask(c, "user", "what did we plan", 0) : c \in Chats}

\* The summary an earlier summarization left for chat 2; chat 1 has none.
OldSummaries == {SummaryRow(2, "digest of earlier turns")}

\* The process at the moment a turn is observed: the database as earlier
\* turns (of this process or of one before a restart) left it, and the
\* tools flag as they left it.
Init ==
    /\ tools = StartupTools
    /\ modelSupportsTools \in BOOLEAN
    /\ store = [c \in Chats |-> IF c = 2 THEN OldRows(InitialRows) ELSE <<>>]
    /\ summaries = OldSummaries
    /\ usage = [c \in Chats |-> <<>>]
    /\ archive = OldArchive
    /\ bg = {}
    /\ turn = [t \in Turns |-> IdleTurn]
    /\ table = [rows |-> <<>>, seq |-> 0]
    /\ clock = 0
    /\ last = NoCall
    /\ bot = NoBot
    /\ facts = <<>>
    /\ scheduled_tasks = <<>>
    /\ polls = NoPolls
    /\ delivered = <<>>

\* ------------------------------------------------------- runAgent, pieces
\* Each piece maps the turn's locals tr and the table st to their values when
\* the code next awaits, returns or throws: [tr |-> ..., st |-> ...].

\* LoopHead with the loop test left out: the loop goes on as long as the
\* model requests tools.
LoopHead_NoCeiling(tr, st, flag, t) ==
    LET useTools == flag /\ getAllToolSchemas # <<>>
    IN  [tr |-> [tr EXCEPT !.iterations = @ + 1,
                           !.useTools = useTools,
                           !.req = [messages |-> tr.messages, tools |-> useTools],
                           !.calls = @ + 1,
                           !.pc = "call"],
         st |-> st]

\* LoopHead offering the tools whatever the tools flag says.
LoopHead_IgnoresFlag(tr, st, flag, t) ==
    IF tr.iterations < MAX_AGENT_ITERATIONS
    THEN LET useTools == getAllToolSchemas # <<>>
         IN  [tr |-> [tr EXCEPT !.iterations = @ + 1,
                                !.useTools = useTools,
                                !.req = [messages |-> tr.messages, tools |-> useTools],
                                !.calls = @ + 1,
                                !.pc = "call"],
              st |-> st]
    ELSE [tr |-> [tr EXCEPT !.req = NoReq, !.pc = "done", !.result = Returned(SafetyMsg)],
          st |-> saveMessage(st, tr.chatId, AssistantText(SafetyMsg), t)]

\* agent.ts:151-166 and 251-257: the loop test; either the next model call is
\* issued, or the safety message is saved and returned.
LoopHead(tr, st, flag, t) ==
    IF tr.iterations < MAX_AGENT_ITERATIONS
    THEN LET useTools == flag /\ getAllToolSchemas # <<>>
         IN  [tr |-> [tr EXCEPT !.iterations = @ + 1,
                                !.useTools = useTools,
                                !.req = [messages |-> tr.messages, tools |-> useTools],
                                !.calls = @ + 1,
                                !.pc = "call"],
              st |-> st]
    ELSE [tr |-> [tr EXCEPT !.req = NoReq, !.pc = "done", !.result = Returned(SafetyMsg)],
          st |-> saveMessage(st, tr.chatId, AssistantText(SafetyMsg), t)]

RECURSIVE ToolLoop(_, _, _, _)
\* agent.ts:224-248: the for loop over the tool calls still in tr.pending, up
\* to the next await of an executor, a throw of JSON.parse, or the end of the
\* list (saveMessages, then the loop test).
ToolLoop(tr, st, flag, t) ==
    IF tr.pending = <<>>
    THEN LoopHead([tr EXCEPT !.batch = <<>>],
                  saveMessages(st, tr.chatId, tr.batch, t), flag, t)
    ELSE LET toolCall == Head(tr.pending)
             errMsg == ToolMsg(toolCall.id, ToolNotFoundText)
         IN  IF ~ArgsParse(toolCall.args)
             THEN [tr |-> [tr EXCEPT !.req = NoReq, !.pc = "thrown",
                                     !.result = Thrown("SyntaxError")],
                   st |-> st]
             ELSE IF getTool(toolCall.name) = Undefined
             THEN ToolLoop([tr EXCEPT !.messages = Append(@, errMsg),
                                      !.batch = Append(@, errMsg),
                                      !.pending = Tail(@)],
                           st, flag, t)
             ELSE [tr |-> [tr EXCEPT !.req = NoReq, !.pc = "tool"], st |-> st]

\* Begin without the saveMessage of the utterance.
Begin_UtteranceNotSaved(tr, st, flag, t, recalled) ==
    LET userMsg == UserMsg(tr.userText)
        history == Append(tr.history, userMsg)
    IN  LoopHead([tr EXCEPT !.memoryContext.recalled = recalled,
                            !.history = history,
                            !.messages = <<SystemMsg>> \o history,
                            !.iterations = 0],
                 st, flag, t)

\* Begin saving the utterance whatever skipStorage says.
Begin_SavesWhenSkipped(tr, st, flag, t, recalled) ==
    LET userMsg == UserMsg(tr.userText)
        history == Append(tr.history, userMsg)
    IN  LoopHead([tr EXCEPT !.memoryContext.recalled = recalled,
                            !.history = history,
                            !.messages = <<SystemMsg>> \o history,
                            !.iterations = 0],
                 saveMessage(st, tr.chatId, userMsg, t),
                 flag, t)

\* agent.ts:130-149: from the return of recallMemories to the loop.
Begin(tr, st, flag, t, recalled) ==
    LET userMsg == UserMsg(tr.userText)
        history == Append(tr.history, userMsg)
    IN  LoopHead([tr EXCEPT !.memoryContext.recalled = recalled,
                            !.history = history,
                            !.messages = <<SystemMsg>> \o history,
                            !.iterations = 0],
                 IF ~tr.skipStorage THEN saveMessage(st, tr.chatId, userMsg, t) ELSE st,
                 flag, t)

\* The responses the gateway may give to the call the turn has in flight.
Response(u, kind, content, calls) ==
    [usage |-> u, kind |-> kind, content |-> content, calls |-> calls]

Responses(tr) ==
    { Response(u, "none", "", <<>>) : u \in BOOLEAN }
    \cup { Response(u, "final", a, <<>>) : u \in BOOLEAN, a \in AnswerTexts }
    \cup (IF tr.req.tools
          THEN { Response(u, "tools", NullContent, l) :
                     u \in BOOLEAN, l \in ToolCallLists(tr.iterations) }
          ELSE {})
    \cup (IF tr.req.tools /\ getTool("learn_fact") # Undefined
          THEN { Response(u, "tools", NullContent, l) :
                     u \in BOOLEAN, l \in WriteCallLists(tr.iterations) }
          ELSE {})

\* OnModelError retrying after any error of a call sent with tools.
OnModelError_RetriesAnyError(tr, flag, err) ==
    IF tr.pc = "call" /\ tr.useTools
    THEN [tr |-> [tr EXCEPT !.pc = "retry",
                            !.req = [messages |-> tr.messages, tools |-> FALSE],
                            !.calls = @ + 1,
                            !.retries = @ + 1],
          flag |-> FALSE]
    ELSE [tr |-> [tr EXCEPT !.req = NoReq, !.pc = "thrown",
                            !.result = Thrown("ModelError")],
          flag |-> flag]

\* OnModelError retrying a recognised failure of the no-tools retry as well.
OnModelError_RetriesAgain(tr, flag, err) ==
    IF isToolUnsupportedError(err) /\ (tr.pc = "retry" \/ tr.useTools)
    THEN [tr |-> [tr EXCEPT !.pc = "retry",
                            !.req = [messages |-> tr.messages, tools |-> FALSE],
                            !.calls = @ + 1,
                            !.retries = @ + 1],
          flag |-> FALSE]
    ELSE [tr |-> [tr EXCEPT !.req = NoReq, !.pc = "thrown",
                            !.result = Thrown("ModelError")],
          flag |-> flag]

\* agent.ts:167-179: the catch of a failed model call; flag is the new value
\* of modelSupportsTools.
OnModelError(tr, flag, err) ==
    IF tr.pc = "call" /\ tr.useTools /\ isToolUnsupportedError(err)
    THEN [tr |-> [tr EXCEPT !.pc = "retry",
                            !.req = [messages |-> tr.messages, tools |-> FALSE],
                            !.calls = @ + 1,
                            !.retries = @ + 1],
          flag |-> FALSE]
    ELSE [tr |-> [tr EXCEPT !.req = NoReq, !.pc = "thrown",
                            !.result = Thrown("ModelError")],
          flag |-> flag]

\* FinalAnswer summarizing from the threshold on, not above it.
FinalAnswer_AtThreshold(tr, st, tasks, t, content) ==
    LET finalText == IF content \in {"", NullContent} THEN NoResponse ELSE content
        st1 == saveMessage(st, tr.chatId, AssistantText(finalText), t)
        tasks1 == IF VECTOR_MEMORY_ENABLED /\ ~tr.skipStorage
                  THEN rememberMessage(tasks, tr.chatId, "assistant", finalText, t)
                  ELSE tasks
    IN  [tr |-> IF countMessages(st1, tr.chatId) >= SUMMARIZE_THRESHOLD
                THEN [tr EXCEPT !.req = NoReq, !.finalText = finalText, !.pc = "summ",
                                !.summCalls = @ + 1]
                ELSE [tr EXCEPT !.req = NoReq, !.finalText = finalText, !.pc = "done",
                                !.result = Returned(finalText)],
         st |-> st1,
         bg |-> tasks1]

\* agent.ts:199-217: the final-answer branch, up to the await of
\* runSummarization or the return.
FinalAnswer(tr, st, tasks, t, content) ==
    LET finalText == IF content \in {"", NullContent} THEN NoResponse ELSE content
        st1 == saveMessage(st, tr.chatId, AssistantText(finalText), t)
        tasks1 == IF VECTOR_MEMORY_ENABLED /\ ~tr.skipStorage
                  THEN rememberMessage(tasks, tr.chatId, "assistant", finalText, t)
                  ELSE tasks
    IN  [tr |-> IF countMessages(st1, tr.chatId) > SUMMARIZE_THRESHOLD
                THEN [tr EXCEPT !.req = NoReq, !.finalText = finalText, !.pc = "summ",
                                !.summCalls = @ + 1]
                ELSE [tr EXCEPT !.req = NoReq, !.finalText = finalText, !.pc = "done",
                                !.result = Returned(finalText)],
         st |-> st1,
         bg |-> tasks1]

\* OnResponse recording the usage after the test for an empty choices array.
OnResponse_UsageAfterChoiceTest(tr, st, led, tasks, flag, t, resp) ==
    LET led1 == IF resp.usage THEN trackUsage(led, tr.chatId, t) ELSE led
    IN  CASE resp.kind = "none" ->
               [tr |-> [tr EXCEPT !.req = NoReq, !.pc = "done",
                                  !.result = Returned(NoResponse)],
                st |-> st, usage |-> led, bg |-> tasks]
          [] resp.kind = "final" ->
               LET f == FinalAnswer(tr, st, tasks, t, resp.content)
               IN  [tr |-> f.tr, st |-> f.st, usage |-> led1, bg |-> f.bg]
          [] resp.kind = "tools" ->
               LET assistantMessage == AssistantCalls(resp.content, resp.calls)
                   l == ToolLoop([tr EXCEPT !.messages = Append(@, assistantMessage),
                                            !.pending = resp.calls,
                                            !.batch = <<>>,
                                            !.toolResps = @ + 1],
                                 saveMessage(st, tr.chatId, assistantMessage, t),
                                 flag, t)
               IN  [tr |-> l.tr, st |-> l.st, usage |-> led1, bg |-> tasks]

\* agent.ts:181-248: from a response of the model to the next await, return
\* or throw.
OnResponse(tr, st, led, tasks, flag, t, resp) ==
    LET led1 == IF resp.usage THEN trackUsage(led, tr.chatId, t) ELSE led
    IN  CASE resp.kind = "none" ->
               [tr |-> [tr EXCEPT !.req = NoReq, !.pc = "done",
                                  !.result = Returned(NoResponse)],
                st |-> st, usage |-> led1, bg |-> tasks]
          [] resp.kind = "final" ->
               LET f == FinalAnswer(tr, st, tasks, t, resp.content)
               IN  [tr |-> f.tr, st |-> f.st, usage |-> led1, bg |-> f.bg]
          [] resp.kind = "tools" ->
               LET assistantMessage == AssistantCalls(resp.content, resp.calls)
                   l == ToolLoop([tr EXCEPT !.messages = Append(@, assistantMessage),
                                            !.pending = resp.calls,
                                            !.batch = <<>>,
                                            !.toolResps = @ + 1],
                                 saveMessage(st, tr.chatId, assistantMessage, t),
                                 flag, t)
               IN  [tr |-> l.tr, st |-> l.st, usage |-> led1, bg |-> tasks]

\* OnToolResult answering with the id of the request after the one executed.
OnToolResult_NextId(tr, st, flag, t, ok) ==
    LET toolCall == Head(tr.pending)
        toolMsg == ToolMsg(toolCall.id + 1, IF ok THEN ToolResultText ELSE ToolErrorText)
    IN  ToolLoop([tr EXCEPT !.messages = Append(@, toolMsg),
                            !.batch = Append(@, toolMsg),
                            !.pending = Tail(@)],
                 st, flag, t)

\* OnToolResult putting the newest result in front of the batch.
OnToolResult_NewestFirst(tr, st, flag, t, ok) ==
    LET toolCall == Head(tr.pending)
        toolMsg == ToolMsg(toolCall.id, IF ok THEN ToolResultText ELSE ToolErrorText)
    IN  ToolLoop([tr EXCEPT !.messages = Append(@, toolMsg),
                            !.batch = <<toolMsg>> \o @,
                            !.pending = Tail(@)],
                 st, flag, t)

\* agent.ts:237-248: the executor of the first pending tool call returned
\* (ok) or threw; then the rest of the for loop.
OnToolResult(tr, st, flag, t, ok) ==
    LET toolCall == Head(tr.pending)
        toolMsg == ToolMsg(toolCall.id, IF ok THEN ToolResultText ELSE ToolErrorText)
    IN  ToolLoop([tr EXCEPT !.messages = Append(@, toolMsg),
                            !.batch = Append(@, toolMsg),
                            !.pending = Tail(@)],
                 st, flag, t)

\* The digest the summarization call of turn t returns.
Digest(t) == "digest of turn " \o ToString(t)

\* OnSummary storing the digest without pruning.
OnSummary_NoPrune(tr, st, sm, t, outcome) ==
    [tr |-> [tr EXCEPT !.pc = "done", !.result = Returned(tr.finalText)],
     st |-> st,
     sm |-> IF outcome = "digest" THEN updateChatSummary(sm, tr.chatId, Digest(t)) ELSE sm]

\* OnSummary pruning whatever the summarization call returned.
OnSummary_PrunesAlways(tr, st, sm, t, outcome) ==
    [tr |-> [tr EXCEPT !.pc = "done", !.result = Returned(tr.finalText)],
     st |-> pruneHistory(st, tr.chatId, KEEP_LAST),
     sm |-> IF outcome = "digest" THEN updateChatSummary(sm, tr.chatId, Digest(t)) ELSE sm]

\* OnSummary pruning also when the summarization call returned empty content.
OnSummary_PrunesOnEmpty(tr, st, sm, t, outcome) ==
    [tr |-> [tr EXCEPT !.pc = "done", !.result = Returned(tr.finalText)],
     st |-> IF outcome \in {"digest", "empty"}
            THEN pruneHistory(st, tr.chatId, KEEP_LAST) ELSE st,
     sm |-> IF outcome = "digest" THEN updateChatSummary(sm, tr.chatId, Digest(t)) ELSE sm]

\* agent.ts:276-285 and 215-216: the summarization call returned a digest,
\* returned empty content, or failed; then runAgent returns.
OnSummary(tr, st, sm, t, outcome) ==
    [tr |-> [tr EXCEPT !.pc = "done", !.result = Returned(tr.finalText)],
     st |-> IF outcome = "digest" THEN pruneHistory(st, tr.chatId, KEEP_LAST) ELSE st,
     sm |-> IF outcome = "digest" THEN updateChatSummary(sm, tr.chatId, Digest(t)) ELSE sm]

\* ----------------------------------------------------------------- actions
\* StartTurn behind a lock per conversation: runAgent waits while a turn of
\* the conversation is in flight.
StartTurn_Serialized(t, c, text, skip) ==
    /\ turn[t].pc = "idle"
    /\ \A u \in Turns : turn[u].chatId = c => turn[u].pc \in {"done", "thrown"}
    /\ LET tr == [turn[t] EXCEPT !.chatId = c, !.userText = text, !.skipStorage = skip,
                                 !.history = loadHistory(store, c),
                                 !.memoryContext.summary = getChatSummary(summaries, c)]
       IN  IF VECTOR_MEMORY_ENABLED
           THEN /\ turn' = [turn EXCEPT ![t] = [tr EXCEPT !.pc = "recall"]]
                /\ UNCHANGED <<store, bg>>
           ELSE LET b == Begin(tr, store, modelSupportsTools, t, {})
                IN  /\ turn' = [turn EXCEPT ![t] = b.tr]
                    /\ store' = b.st
                    /\ bg' = bg
    /\ UNCHANGED <<modelSupportsTools, summaries, usage, archive>>
    /\ UNCHANGED memVars

\* runAgent(c, text, {skipStorage: skip}) is called: agent.ts:100-109.
StartTurn(t, c, text, skip) ==
    /\ turn[t].pc = "idle"
    /\ LET tr == [turn[t] EXCEPT !.chatId = c, !.userText = text, !.skipStorage = skip,
                                 !.history = loadHistory(store, c),
                                 !.memoryContext.summary = getChatSummary(summaries, c)]
       IN  IF VECTOR_MEMORY_ENABLED
           THEN /\ turn' = [turn EXCEPT ![t] = [tr EXCEPT !.pc = "recall"]]
                /\ UNCHANGED <<store, bg>>
           ELSE LET b == Begin(tr, store, modelSupportsTools, t, {})
                IN  /\ turn' = [turn EXCEPT ![t] = b.tr]
                    /\ store' = b.st
                    /\ bg' = bg
    /\ UNCHANGED <<modelSupportsTools, summaries, usage, archive>>
    /\ UNCHANGED memVars

\* recallMemories returned: with the hits (ok), or with [] after a failure or
\* for a query too short to search.  Then agent.ts:111-166.
RecallReturns(t, ok) ==
    /\ turn[t].pc = "recall"
    /\ LET tr == turn[t]
           searched == tr.userText # "" /\ TrimLen(tr.userText) >= MIN_QUERY_LEN
           recalled == {<<r.role, r.content>> :
                           r \in recallMemories(archive, tr.chatId, tr.userText, ok)}
           b == Begin(tr, store, modelSupportsTools, t, recalled)
       IN  /\ (~searched => ok)
           /\ turn' = [turn EXCEPT ![t] = b.tr]
           /\ store' = b.st
           /\ bg' = IF VECTOR_MEMORY_ENABLED /\ ~tr.skipStorage
                    THEN rememberMessage(bg, tr.chatId, "user", tr.userText, t)
                    ELSE bg
    /\ UNCHANGED <<modelSupportsTools, summaries, usage, archive>>
    /\ UNCHANGED memVars

\* The model call (or its no-tools retry) of turn t failed with err.
ModelFails(t, err) ==
    /\ turn[t].pc \in {"call", "retry"}
    /\ LET r == OnModelError(turn[t], modelSupportsTools, err)
       IN  /\ turn' = [turn EXCEPT ![t] = r.tr]
           /\ modelSupportsTools' = r.flag
    /\ UNCHANGED <<store, summaries, usage, archive, bg>>
    /\ UNCHANGED memVars

\* The model call (or its no-tools retry) of turn t returned resp.
ModelResponds(t, resp) ==
    /\ turn[t].pc \in {"call", "retry"}
    /\ resp \in Responses(turn[t])
    /\ LET r == OnResponse(turn[t], store, usage, bg, modelSupportsTools, t, resp)
       IN  /\ turn' = [turn EXCEPT ![t] = r.tr]
           /\ store' = r.st
           /\ usage' = r.usage
           /\ bg' = r.bg
    /\ UNCHANGED <<modelSupportsTools, summaries, archive>>
    /\ UNCHANGED memVars

\* The executor awaited by turn t returned (ok) or threw.
ToolReturns(t, ok) ==
    /\ turn[t].pc = "tool"
    /\ LET r == OnToolResult(turn[t], store, modelSupportsTools, t, ok)
           toolCall == Head(turn[t].pending)
           x == Execute(toolCall.name, ExecutorInput(toolCall, turn[t].chatId),
                        facts, scheduled_tasks, clock)
       IN  /\ turn' = [turn EXCEPT ![t] = r.tr]
           /\ store' = r.st
           /\ facts' = IF ok THEN x.facts ELSE facts
           /\ scheduled_tasks' = IF ok THEN x.tasks ELSE scheduled_tasks
    /\ UNCHANGED <<modelSupportsTools, summaries, usage, archive, bg>>
    /\ UNCHANGED <<tools, table, clock, last, bot, schedVars>>

\* The summarization call awaited by turn t ended.
SummarizationReturns(t, outcome) ==
    /\ turn[t].pc = "summ"
    /\ LET r == OnSummary(turn[t], store, summaries, t, outcome)
       IN  /\ turn' = [turn EXCEPT ![t] = r.tr]
           /\ store' = r.st
           /\ summaries' = r.sm
    /\ UNCHANGED <<modelSupportsTools, usage, archive, bg>>
    /\ UNCHANGED memVars

\* vector-memory.ts:128-151: a background rememberMessage ended: the record
\* was written (ok), or embedding or the write failed and was logged.
RememberFinishes(task, ok) ==
    /\ task \in bg
    /\ bg' = bg \ {task}
    /\ archive' = IF ok THEN archive \cup {task} ELSE archive
    /\ UNCHANGED <<modelSupportsTools, store, summaries, usage, turn>>
    /\ UNCHANGED memVars

\* The steps of turn t.
TurnStep(t) ==
    \/ \E c \in Chats, text \in UserTexts, skip \in BOOLEAN : StartTurn(t, c, text, skip)
    \/ \E ok \in BOOLEAN : RecallReturns(t, ok)
    \/ \E err \in ModelErrors : ModelFails(t, err)
    \/ \E resp \in Responses(turn[t]) : ModelResponds(t, resp)
    \/ \E ok \in BOOLEAN : ToolReturns(t, ok)
    \/ \E outcome \in {"digest", "empty", "fail"} : SummarizationReturns(t, outcome)

Background == \E task \in bg, ok \in BOOLEAN : RememberFinishes(task, ok)

\* One runAgent invocation, observed from any of the initial process states,
\* with its background tasks.
SoloTurns == {1}
Next == (\E t \in SoloTurns : TurnStep(t)) \/ Background

Spec == Init /\ [][Next]_vars

\* Fairness for termination: the environment answers, i.e. every awaited
\* model call, executor, recall and summarization call returns or throws.
FairSpec == Spec /\ WF_vars(\E t \in SoloTurns : TurnStep(t))

\* ------------------------------------------------------------ observations
Started(t) == turn[t].pc # "idle"
Ended(t) == turn[t].pc \in {"done", "thrown"}
InFlight(t) == Started(t) /\ ~Ended(t)
\* The loop of turn t has been entered (agent.ts:151).
Begun(t) == turn[t].calls >= 1

\* The index in messages of the first message turn t appended after the
\* system prompt, the loaded history and the utterance.
OwnFrom(t) == Len(turn[t].history) + 2
OwnIndices(t) == OwnFrom(t)..Len(turn[t].messages)

\* The iteration in which the gateway issued request id.
IterOf(id) == ((id - 1) \div MaxToolCalls) + 1

\* The tool-call requests of assistant messages turn t appended to messages
\* before index i, as <<index, position>> pairs, whose id is id.
RequestsBefore(t, i, id) ==
    { <<j, k>> \in (OwnFrom(t)..(i - 1)) \X (1..MaxToolCalls) :
        /\ turn[t].messages[j].role = "assistant"
        /\ k <= Len(turn[t].messages[j].tool_calls)
        /\ turn[t].messages[j].tool_calls[k].id = id }

\* The same, over the rows turn t inserted into table rows before index i.
RowRequestsBefore(rows, t, i, id) ==
    { <<j, k>> \in (1..(i - 1)) \X (1..MaxToolCalls) :
        /\ rows[j].by = t
        /\ rows[j].role = "assistant"
        /\ k <= Len(rows[j].tool_calls)
        /\ rows[j].tool_calls[k].id = id }

\* Row r is in chat c's table.
Stored(c, r) == \E i \in 1..Len(store[c]) : store[c][i] = r

\* --------------------------------------------------------------------- C1
\* C1: every invocation of runAgent terminates.  The loop never exceeds
\* MAX_AGENT_ITERATIONS iterations (at most one model call each, plus one
\* retry), and, the environment answering every await, a started turn ends:
\* it returns (final answer or safety message) or throws.
C1_Terminates ==
    /\ [](\A t \in Turns : /\ turn[t].iterations <= MAX_AGENT_ITERATIONS
                           /\ turn[t].calls <= MAX_AGENT_ITERATIONS + 1)
    /\ \A t \in SoloTurns : Started(t) ~> Ended(t)

\* A turn that ran through every iteration and returned the safety message.
C1_Witness ==
    \E t \in Turns : /\ turn[t].pc = "done"
                     /\ turn[t].iterations = MAX_AGENT_ITERATIONS
                     /\ turn[t].result = Returned(SafetyMsg)

\* --------------------------------------------------------------------- C2
\* C2: a turn in which every model call was answered by a response that
\* requests a tool call ends after exactly MAX_AGENT_ITERATIONS model calls
\* by returning the safety message, which is then the last row of the
\* conversation, an assistant row; it does not throw.
C2_SafetyAfterCeiling ==
    \A t \in Turns :
        (Ended(t) /\ turn[t].toolResps = turn[t].calls) =>
            /\ turn[t].result = Returned(SafetyMsg)
            /\ turn[t].calls = MAX_AGENT_ITERATIONS
            /\ LET rows == store[turn[t].chatId]
               IN  /\ Len(rows) > 0
                   /\ rows[Len(rows)] = RowOf(AssistantText(SafetyMsg), t)

\* --------------------------------------------------------------------- C3
\* C3: once an executor has thrown (its error message is in the message
\* list), the turn does not throw while handling that response, and as soon
\* as it has left that response's tool calls behind the error message is in
\* the table under the failing call's id.
C3_ExecutorThrowHandled ==
    \A t \in Turns : \A i \in OwnIndices(t) :
        LET m == turn[t].messages[i]
            handling == turn[t].pc = "tool" /\ turn[t].iterations = IterOf(m.tool_call_id)
        IN  (m.role = "tool" /\ m.content = ToolErrorText) =>
               /\ ~(turn[t].pc = "thrown" /\ turn[t].iterations = IterOf(m.tool_call_id))
               /\ (~handling => Stored(turn[t].chatId, RowOf(m, t)))

\* --------------------------------------------------------------------- C4
\* C4: for a request whose tool name is not registered no executor is
\* awaited, and once the loop has reached the request an error message with
\* its id is in the message list and the turn has not thrown while handling
\* that response.
C4_MissingToolHandled ==
    \A t \in Turns :
        /\ turn[t].pc = "tool" => Head(turn[t].pending).name \in RegisteredTools
        /\ \A j \in OwnIndices(t) : \A k \in 1..Len(turn[t].messages[j].tool_calls) :
              LET q == turn[t].messages[j].tool_calls[k]
                  waiting == /\ turn[t].pc = "tool"
                             /\ turn[t].iterations = IterOf(q.id)
                             /\ \E p \in 1..Len(turn[t].pending) : turn[t].pending[p] = q
              IN  (q.name \notin RegisteredTools /\ ~waiting) =>
                     /\ ~(turn[t].pc = "thrown" /\ turn[t].iterations = IterOf(q.id))
                     /\ \E i \in OwnIndices(t) :
                           turn[t].messages[i] = ToolMsg(q.id, ToolNotFoundText)

\* --------------------------------------------------------------------- C5
\* C5: runAgent throws only for a failed model call.
C5_ThrowsOnlyModelErrors ==
    \A t \in Turns : turn[t].pc = "thrown" => turn[t].result = Thrown("ModelError")

\* --------------------------------------------------------------------- C6
\* C6: at every point of a turn, every tool message the turn appended to its
\* message list carries the id of exactly one tool-call request of an
\* assistant message the turn appended earlier; and whenever rows are
\* inserted, every inserted tool row carries the id of exactly one request of
\* an assistant row the same turn inserted before it.
C6_MessagesCorrelate ==
    \A t \in Turns : \A i \in OwnIndices(t) :
        turn[t].messages[i].role = "tool" =>
            Cardinality(RequestsBefore(t, i, turn[t].messages[i].tool_call_id)) = 1

C6_RowsCorrelate ==
    \A c \in Chats :
        Len(store'[c]) > Len(store[c]) =>
            \A i \in (Len(store[c]) + 1)..Len(store'[c]) :
                store'[c][i].role = "tool" =>
                    Cardinality(RowRequestsBefore(store'[c], store'[c][i].by, i,
                                                  store'[c][i].tool_name)) = 1

C6_ToolMessagesCorrelate == []C6_MessagesCorrelate /\ [][C6_RowsCorrelate]_vars

\* A turn that has persisted the results of two tool calls of one response.
C6_Witness ==
    \E t \in Turns :
        /\ turn[t].pc = "call"
        /\ turn[t].iterations = 2
        /\ Len(turn[t].messages) = OwnFrom(t) + 2
        /\ Len(store[turn[t].chatId]) >= 3
        /\ store[turn[t].chatId][Len(store[turn[t].chatId])].role = "tool"

\* --------------------------------------------------------------------- C7
\* The errors the claim lists as tools-unsupported.
C7_Listed(err) ==
    \/ err.status \in {400, 403, 404}
    \/ \E f \in err.fragments : ToLower(f) \in {"tool", "function", "not supported"}

\* C7: when a model call sent with tool schemas fails with a listed error,
\* the flag is off afterwards and the turn's next model call, now in flight,
\* carries the same message list without tool schemas; a response to that
\* retry is handled without a throw and the turn completes: it returns the
\* retry's answer (after the summarization call it may await).
C7_RetryStep ==
    \A t \in Turns :
        /\ \A err \in ModelErrors :
              (ModelFails(t, err) /\ turn[t].pc = "call" /\ turn[t].req.tools /\ C7_Listed(err)) =>
                  /\ modelSupportsTools' = FALSE
                  /\ turn'[t].pc = "retry"
                  /\ turn'[t].req = [messages |-> turn[t].req.messages, tools |-> FALSE]
                  /\ turn'[t].messages = turn[t].messages
        /\ \A resp \in Responses(turn[t]) :
              (ModelResponds(t, resp) /\ turn[t].pc = "retry") =>
                  /\ turn'[t].pc \in {"done", "summ"}
                  /\ turn'[t].pc = "done" =>
                        turn'[t].result \in {Returned(NoResponse), Returned(resp.content)}
                  /\ turn'[t].pc = "summ" =>
                        turn'[t].finalText \in {NoResponse, resp.content}
        /\ (turn[t].pc = "summ" /\ turn'[t] # turn[t]) =>
              turn'[t].pc = "done" /\ turn'[t].result = Returned(turn[t].finalText)

C7_ToolsOffRetry == [][C7_RetryStep]_vars

\* A turn whose first call failed, whose retry was answered, and which
\* returned that answer.
C7_Witness ==
    \E t \in Turns :
        /\ turn[t].retries = 1
        /\ turn[t].pc = "done"
        /\ turn[t].result = Returned("here is the answer")

\* --------------------------------------------------------------------- C8
\* C8: a failed model call is followed by a retry only if it was the call of
\* an iteration sent with tool schemas and the error is recognised; any other
\* failure (unrecognised, tools already off, or of the retry) makes the turn
\* throw that error without a further model call; a turn retries at most
\* once, and after a throw it does nothing more.
C8_FailureStep ==
    \A t \in Turns :
        /\ \A err \in ModelErrors :
              ModelFails(t, err) =>
                  IF turn[t].pc = "call" /\ turn[t].req.tools /\ isToolUnsupportedError(err)
                  THEN /\ turn'[t].pc = "retry"
                       /\ turn'[t].calls = turn[t].calls + 1
                       /\ turn[t].retries = 0
                  ELSE /\ turn'[t].pc = "thrown"
                       /\ turn'[t].result = Thrown("ModelError")
                       /\ turn'[t].calls = turn[t].calls
        /\ turn[t].pc = "thrown" => turn'[t] = turn[t]
        /\ turn'[t].retries <= 1

C8_RetryAtMostOnce == [][C8_FailureStep]_vars

\* A turn that threw because its retry failed, and one that threw on an
\* unrecognised error of a call sent with tools.
C8_Witness ==
    \E t \in Turns :
        /\ turn[t].pc = "thrown"
        /\ turn[t].result = Thrown("ModelError")
        /\ turn[t].retries = 1
        /\ turn[t].calls = 2

\* --------------------------------------------------------------------- C9
\* The row of turn t's utterance is in its conversation's table.
UtteranceStored(t) == Stored(turn[t].chatId, RowOf(UserMsg(turn[t].userText), t))

\* C9 as stated: in every turn, from the moment the first model call is
\* issued and as long as the turn runs, the utterance is in the table.
C9_UtteranceStoredBeforeCall ==
    \A t \in Turns : (Begun(t) /\ InFlight(t)) => UtteranceStored(t)

\* C9, amended: in every turn started without skipStorage, from the moment
\* the first model call is issued and as long as the turn runs, the utterance
\* is in the table.
C9_UtteranceStoredUnlessSkipped ==
    \A t \in Turns :
        (Begun(t) /\ InFlight(t) /\ ~turn[t].skipStorage) => UtteranceStored(t)

\* The first model call of a turn started without skipStorage is in flight.
C9_Witness ==
    \E t \in Turns :
        /\ turn[t].pc = "call"
        /\ turn[t].calls = 1
        /\ ~turn[t].skipStorage
        /\ UtteranceStored(t)

\* -------------------------------------------------------------------- C10
\* The summarization of turn t has not pruned the table (it stores the
\* digest and prunes in one step).
Unpruned(t) == getChatSummary(summaries, turn[t].chatId) # Digest(t)

\* The loop is not in the middle of the tool calls of message index i's
\* iteration: the for loop over them has ended.
BatchOver(t, i) == i <= Len(turn[t].messages) - Len(turn[t].batch)

LastAssistantRowOf(t) ==
    LET rows == store[turn[t].chatId]
        mine == {i \in 1..Len(rows) : rows[i].by = t /\ rows[i].role = "assistant"}
    IN  {rows[i] : i \in {j \in mine : \A k \in mine : k <= j}}

\* C11: whenever runAgent has returned normally, the last assistant row the
\* turn wrote to its conversation is the row of the returned text.
C11_ReturnedTextPersisted ==
    \A t \in Turns :
        turn[t].pc = "done" =>
            LastAssistantRowOf(t) = {RowOf(AssistantText(turn[t].result.value), t)}

\* -------------------------------------------------------------------- C12
\* The rows turn t inserted into its conversation's table, in table order.
OwnRows(t) ==
    LET IsMine(r) == r.by = t
    IN  SelectSeq(store[turn[t].chatId], IsMine)

\* The messages turn t has produced and handed to the store so far, in the
\* order it produced them: the utterance (unless skipStorage), the assistant
\* tool-call messages and the tool results of the iterations whose for loop
\* has ended plus the tool-call message of the one under way, and the final
\* assistant message (the answer or the safety message).
Produced(t) ==
    LET tr == turn[t]
        handed == Len(tr.messages) - Len(tr.batch)
    IN  (IF tr.skipStorage THEN <<>> ELSE <<UserMsg(tr.userText)>>)
        \o [i \in 1..(handed - OwnFrom(t) + 1) |-> tr.messages[OwnFrom(t) + i - 1]]
        \o (IF tr.finalText # "" THEN <<AssistantText(tr.finalText)>>
            ELSE IF tr.result = Returned(SafetyMsg) THEN <<AssistantText(SafetyMsg)>>
            ELSE <<>>)

\* C12: for a turn running alone, at every point the rows it has inserted
\* are exactly the rows of the messages it has produced, in the order it
\* produced them (a turn started with skipStorage has no utterance row); the
\* tool results of an iteration are inserted together, after its last
\* executor has ended; and while a model call is in flight every message the
\* turn appended to the message list is in the table and the call carries
\* the whole list.
C12_RowsInTurnOrder ==
    \A t \in Turns :
        (Begun(t) /\ Unpruned(t)) =>
            /\ OwnRows(t) = [i \in 1..Len(Produced(t)) |-> RowOf(Produced(t)[i], t)]
            /\ turn[t].pc = "tool" =>
                  /\ turn[t].pending # <<>>
                  /\ \A i \in 1..Len(turn[t].batch) :
                        ~Stored(turn[t].chatId, RowOf(turn[t].batch[i], t))
            /\ turn[t].pc \in {"call", "retry"} =>
                  /\ turn[t].batch = <<>>
                  /\ turn[t].req.messages = turn[t].messages
                  /\ \A i \in OwnIndices(t) :
                        Stored(turn[t].chatId, RowOf(turn[t].messages[i], t))

\* A turn that has answered after one iteration with two tool calls: its
\* five rows are the utterance, the tool-call message, the two results and
\* the answer.
C12_Witness ==
    \E t \in Turns :
        /\ turn[t].pc = "done"
        /\ ~turn[t].skipStorage
        /\ turn[t].finalText = "here is the answer"
        /\ Len(OwnRows(t)) = 5
        /\ OwnRows(t)[3].role = "tool"
        /\ OwnRows(t)[4].role = "tool"
        /\ OwnRows(t)[3].tool_name # OwnRows(t)[4].tool_name

\* -------------------------------------------------------------------- C13
\* Turn t has gone through the final-answer branch.
Answered(t) == turn[t].finalText # ""

\* C13, the step of a model response: a response with a final answer is
\* followed by a summarization call (the turn then awaits it) exactly when,
\* the answer being in the table, the conversation holds more than 40 rows;
\* no other step issues a summarization call.
C13_AnswerStep ==
    \A t \in Turns :
        /\ \A resp \in Responses(turn[t]) :
              (ModelResponds(t, resp) /\ resp.kind = "final") =>
                  LET n == countMessages(store', turn[t].chatId)
                  IN  /\ store'[turn[t].chatId][n].role = "assistant"
                      /\ store'[turn[t].chatId][n].content = turn'[t].finalText
                      /\ n > SUMMARIZE_THRESHOLD =>
                            /\ turn'[t].pc = "summ"
                            /\ turn'[t].summCalls = turn[t].summCalls + 1
                      /\ n <= SUMMARIZE_THRESHOLD =>
                            /\ turn'[t].pc = "done"
                            /\ turn'[t].summCalls = turn[t].summCalls
        /\ turn'[t].summCalls # turn[t].summCalls =>
              \E resp \in Responses(turn[t]) : ModelResponds(t, resp) /\ resp.kind = "final"

\* C13, at every point: a turn issues at most one summarization call, only
\* after a final answer, and a turn that ended with the safety message or
\* with a thrown failure has issued none.
C13_AtMostOnce ==
    \A t \in Turns :
        /\ turn[t].summCalls <= 1
        /\ turn[t].summCalls = 1 => Answered(t)
        /\ turn[t].pc = "summ" => turn[t].summCalls = 1
        /\ (turn[t].pc = "thrown" \/ turn[t].result = Returned(SafetyMsg)) =>
              turn[t].summCalls = 0

C13_OneSummarizationCall == []C13_AtMostOnce /\ [][C13_AnswerStep]_vars

\* Both cases: a turn that answered with exactly 40 rows in the table and
\* returned without a summarization call...
C13_WitnessAtThreshold ==
    \E t \in Turns :
        /\ turn[t].pc = "done"
        /\ Answered(t)
        /\ turn[t].summCalls = 0
        /\ countMessages(store, turn[t].chatId) = SUMMARIZE_THRESHOLD

\* ... and a turn that answered with 41 rows and awaits its summarization.
C13_Witness ==
    \E t \in Turns :
        /\ turn[t].pc = "summ"
        /\ turn[t].summCalls = 1
        /\ countMessages(store, turn[t].chatId) = SUMMARIZE_THRESHOLD + 1

\* -------------------------------------------------------------------- C14
\* Turn t qualified (more than 40 rows at its final answer) and has returned.
QualifiedAndReturned(t) == turn[t].pc = "done" /\ turn[t].summCalls = 1

\* The summarization call of turn t returned a non-empty digest, which was
\* stored.
DigestStored(t) == getChatSummary(summaries, turn[t].chatId) = Digest(t)

\* C14 as stated: when a qualifying turn has returned, its conversation
\* holds at most 15 rows.
C14_AtMostKeepLast ==
    \A t \in Turns :
        QualifiedAndReturned(t) =>
            countMessages(store, turn[t].chatId) <= KEEP_LAST

\* C14, amended: when a qualifying turn whose summarization call returned a
\* non-empty digest has returned, its conversation holds at most 15 rows;
\* when that call failed or returned empty content nothing was pruned, and
\* the conversation still holds more than 40.
C14_AtMostKeepLastAfterDigest ==
    \A t \in Turns :
        QualifiedAndReturned(t) =>
            IF DigestStored(t)
            THEN countMessages(store, turn[t].chatId) <= KEEP_LAST
            ELSE countMessages(store, turn[t].chatId) > SUMMARIZE_THRESHOLD

\* A qualifying turn that returned after its digest was stored: 15 rows are
\* left, the last of them its answer.
C14_Witness ==
    \E t \in Turns :
        /\ QualifiedAndReturned(t)
        /\ DigestStored(t)
        /\ countMessages(store, turn[t].chatId) = KEEP_LAST
        /\ store[turn[t].chatId][KEEP_LAST] = RowOf(AssistantText(turn[t].finalText), t)

\* -------------------------------------------------------------------- C18
\* C18: when the summarization call a turn awaits fails or returns empty
\* content, the turn returns its final answer, and the summaries and the
\* rows of every conversation are what they were before the call ended.
C18_FailedSummaryStep ==
    \A t \in Turns : \A outcome \in {"empty", "fail"} :
        SummarizationReturns(t, outcome) =>
            /\ turn'[t].pc = "done"
            /\ turn'[t].result = Returned(turn[t].finalText)
            /\ summaries' = summaries
            /\ store' = store

C18_SummaryFailureHarmless == [][C18_FailedSummaryStep]_vars

\* A turn of a conversation that has a summary returned its answer after a
\* summarization call that stored nothing: the old summary and all the rows
\* are there.
C18_Witness ==
    \E t \in Turns :
        /\ QualifiedAndReturned(t)
        /\ turn[t].result = Returned("here is the answer")
        /\ summaries = OldSummaries
        /\ getChatSummary(summaries, turn[t].chatId) # NoSummary
        /\ countMessages(store, turn[t].chatId) > SUMMARIZE_THRESHOLD

\* -------------------------------------------------------------------- C19
\* C19: the return of runAgent does not wait for the summarization call:
\* once the turn has persisted its final answer and handed it to memory
\* maintenance it has returned, it is never held back until the
\* summarization call has ended.
C19_ReturnDoesNotWait ==
    \A t \in Turns : Answered(t) => turn[t].pc = "done"

\* ================================================== the memory interface
\* memory.ts and vector-memory.ts on their own: the functions the agent loop
\* and the commands call, applied one after another to the database with its
\* id and created_at columns and to the archive.
\*
\* The agent-loop model above keeps, per conversation, the rows in the order
\* of index idx_history_chat (chat_id, created_at, then the rowid): store[c]
\* is HistoryOf(table, c) below.  created_at is unixepoch(): whole seconds,
\* so rows share a value; the wall clock does not go back.

\* Calls of the interface in one behaviour.
MaxCalls == 3

\* A row of conversation_history: id (INTEGER PRIMARY KEY AUTOINCREMENT),
\* chat_id, created_at and the columns of Row.
TableRow(id, c, at, r) == [id |-> id, chat_id |-> c, created_at |-> at, row |-> r]

\* The order of index idx_history_chat among the rows of one conversation.
IndexBefore(a, b) ==
    \/ a.created_at < b.created_at
    \/ a.created_at = b.created_at /\ a.id < b.id

\* WHERE chat_id = c ORDER BY created_at ASC, read through the index.
IndexOrder(tb, c) ==
    LET OfChat(r) == r.chat_id = c
    IN  SortSeq(SelectSeq(tb.rows, OfChat), IndexBefore)

\* The table as the agent-loop model sees it: per conversation, the Row
\* columns in index order.
HistoryOf(tb, c) == [i \in 1..Len(IndexOrder(tb, c)) |-> IndexOrder(tb, c)[i].row]
StoreOf(tb) == [c \in Chats |-> HistoryOf(tb, c)]

\* memory.ts saveMessage on the table: one INSERT, created_at defaulting to
\* the clock.
InsertRow(tb, c, m, now) ==
    [rows |-> Append(tb.rows, TableRow(tb.seq + 1, c, now, RowOf(m, 0))),
     seq |-> tb.seq + 1]

\* memory.ts pruneHistory on the table: DELETE ... WHERE chat_id = c AND id
\* NOT IN (the keepLast last ids in index order).
DeleteAllBut(tb, c, keepLast) ==
    LET byChat == [d \in Chats |-> IndexOrder(tb, d)]
        kept == pruneHistory(byChat, c, keepLast)[c]
        keptIds == {kept[i].id : i \in 1..Len(kept)}
        Stays(r) == r.chat_id # c \/ r.id \in keptIds
    IN  [tb EXCEPT !.rows = SelectSeq(@, Stays)]

\* A database earlier turns left: n rows, four to a second, every eleventh
\* of conversation 2 and the others of conversation 1.
OldTable(n) ==
    [rows |-> [i \in 1..n |->
                  TableRow(i, IF i % 11 = 3 THEN 2 ELSE 1, (i - 1) \div 4,
                           Row(IF i % 2 = 1 THEN "user" ELSE "assistant",
                               "old message " \o ToString(i), NoId, <<>>, 0))],
     seq |-> n]

\* Sizes of the database at the start: two rows, or enough for conversation
\* 1 to hold one row more than loadHistory's cap.
InitialSizes == {2, MAX_HISTORY + 4}

\* The messages saved, the texts remembered and searched, the digests.
SavedMessages ==
    { UserMsg("hi"),
      AssistantCalls(NullContent, <<Request(1, "get_current_time", "")>>),
      ToolMsg(1, ToolResultText) }
MemoryTexts == {"hi", "what did we plan", "we planned a trip"}
DigestTexts == {"digest A", "digest B"}
KeepLasts == {0, 2, KEEP_LAST}

MemInit ==
    /\ \E n \in InitialSizes :
          /\ table = OldTable(n)
          /\ clock = (n - 1) \div 4
    /\ last = NoCall
    /\ summaries = {}
    /\ archive = OldArchive
    /\ tools = StartupTools
    /\ modelSupportsTools = TRUE
    /\ store = [c \in Chats |-> <<>>]
    /\ usage = [c \in Chats |-> <<>>]
    /\ bg = {}
    /\ turn = [t \in Turns |-> IdleTurn]
    /\ bot = NoBot
    /\ facts = <<>>
    /\ scheduled_tasks = <<>>
    /\ polls = NoPolls
    /\ delivered = <<>>

\* The call recorded in last.
Call(op, c, arg, result) ==
    [op |-> op, c |-> c, arg |-> arg, result |-> result, n |-> last.n + 1]

\* A second passes.
Tick ==
    /\ last.n < MaxCalls
    /\ clock' = clock + 1
    /\ last' = [op |-> "tick", n |-> last.n + 1]
    /\ UNCHANGED <<table, summaries, archive>>
    /\ UNCHANGED agentVars

SaveMessage(c, m) ==
    /\ last.n < MaxCalls
    /\ table' = InsertRow(table, c, m, clock)
    /\ last' = Call("saveMessage", c, m, 0)
    /\ UNCHANGED <<clock, summaries, archive>>
    /\ UNCHANGED agentVars

LoadHistory(c) ==
    /\ last.n < MaxCalls
    /\ last' = Call("loadHistory", c, 0, loadHistory(StoreOf(table), c))
    /\ UNCHANGED <<table, clock, summaries, archive>>
    /\ UNCHANGED agentVars

\* pruneHistory(c, keepLast); the result is result.changes.
PruneHistory(c, keepLast) ==
    /\ last.n < MaxCalls
    /\ table' = DeleteAllBut(table, c, keepLast)
    /\ last' = Call("pruneHistory", c, keepLast, Len(table.rows) - Len(table'.rows))
    /\ UNCHANGED <<clock, summaries, archive>>
    /\ UNCHANGED agentVars

UpdateChatSummary(c, text) ==
    /\ last.n < MaxCalls
    /\ summaries' = updateChatSummary(summaries, c, text)
    /\ last' = Call("updateChatSummary", c, text, 0)
    /\ UNCHANGED <<table, clock, archive>>
    /\ UNCHANGED agentVars

\* rememberMessage(c, role, content) ran to its end: the record was written
\* (ok), or the text is not memorable, or embedding or the write failed.
RememberMessage(c, role, content, ok) ==
    /\ last.n < MaxCalls
    /\ archive' = IF ok THEN archive \cup rememberMessage({}, c, role, content, 0)
                  ELSE archive
    /\ last' = Call("rememberMessage", c, content, 0)
    /\ UNCHANGED <<table, clock, summaries>>
    /\ UNCHANGED agentVars

RecallMemories(c, query, found) ==
    /\ last.n < MaxCalls
    /\ last' = Call("recallMemories", c, query, recallMemories(archive, c, query, found))
    /\ UNCHANGED <<table, clock, summaries, archive>>
    /\ UNCHANGED agentVars

MemNext ==
    \/ Tick
    \/ \E c \in Chats, m \in SavedMessages : SaveMessage(c, m)
    \/ \E c \in Chats : LoadHistory(c)
    \/ \E c \in Chats, keepLast \in KeepLasts : PruneHistory(c, keepLast)
    \/ \E c \in Chats, text \in DigestTexts : UpdateChatSummary(c, text)
    \/ \E c \in Chats, role \in {"user", "assistant"}, content \in MemoryTexts, ok \in BOOLEAN :
          RememberMessage(c, role, content, ok)
    \/ \E c \in Chats, query \in MemoryTexts, found \in BOOLEAN : RecallMemories(c, query, found)

MemorySpec == MemInit /\ [][MemNext]_vars

\* -------------------------------------------------------------------- C15
\* The rows of conversation c in the order they were appended.
Appended(tb, c) ==
    LET OfChat(r) == r.chat_id = c
    IN  SelectSeq(tb.rows, OfChat)

Min(a, b) == IF a <= b THEN a ELSE b

\* The newest k rows of conversation c, oldest first, as messages.
NewestWindow(tb, c, k) ==
    LET rows == Appended(tb, c)
        n == Len(rows)
        w == Min(k, n)
    IN  [i \in 1..w |-> MsgOf(rows[n - w + i].row)]

\* C15: loadHistory(c) returns the most recent messages of c, at most 30,
\* oldest first, whatever the number of rows c holds.
C15_LoadsNewestWindow ==
    last.op = "loadHistory" =>
        last.result = NewestWindow(table, last.c, MAX_HISTORY)

\* -------------------------------------------------------------------- C16
\* C16: a call pruneHistory(c, n) leaves of conversation c the min(n, count)
\* rows appended last, in their order, returns the number of rows it
\* deleted, and leaves the rows of every other conversation as they were.
C16_PruneStep ==
    \A c \in Chats : \A n \in KeepLasts :
        PruneHistory(c, n) =>
            LET before == Appended(table, c)
                after == Appended(table', c)
                k == Min(n, Len(before))
            IN  /\ Len(after) = k
                /\ after = SubSeq(before, Len(before) - k + 1, Len(before))
                /\ last'.result = Len(before) - k
                /\ \A d \in Chats \ {c} : Appended(table', d) = Appended(table, d)
                /\ Len(table'.rows) = Len(table.rows) - (Len(before) - k)

C16_PruneKeepsNewest == [][C16_PruneStep]_vars

\* pruneHistory(1, 15) deleted 16 of 31 rows; the oldest row kept was
\* written in the same second as the newest row deleted, and the rows of
\* conversation 2 are there.
C16_Witness ==
    /\ last.op = "pruneHistory"
    /\ last.c = 1
    /\ last.arg = KEEP_LAST
    /\ last.result = MAX_HISTORY + 1 - KEEP_LAST
    /\ Len(Appended(table, 1)) = KEEP_LAST
    /\ Appended(table, 1)[1].created_at = 4
    /\ Appended(table, 1)[1].id = 19
    /\ Len(Appended(table, 2)) = 3

\* -------------------------------------------------------------------- C17
\* The rows of chat_summaries of conversation c.
SummariesOf(sm, c) == {r \in sm : r.chat_id = c}

\* C17, at every point: a conversation has at most one summary row.
C17_AtMostOne == \A c \in Chats : Cardinality(SummariesOf(summaries, c)) <= 1

\* C17, every step: updateChatSummary(c, text) leaves conversation c with
\* the one row holding text alone (created if there was none, replaced
\* otherwise) and the rows of the other conversations as they were; no
\* other call changes a summary.
C17_SummaryStep ==
    /\ \A c \in Chats : \A text \in DigestTexts :
          UpdateChatSummary(c, text) =>
              /\ SummariesOf(summaries', c) = {SummaryRow(c, text)}
              /\ getChatSummary(summaries', c) = text
              /\ \A d \in Chats \ {c} : SummariesOf(summaries', d) = SummariesOf(summaries, d)
    /\ summaries' # summaries => last'.op = "updateChatSummary"

C17_OneSummaryOverwritten == []C17_AtMostOne /\ [][C17_SummaryStep]_vars

\* Conversation 1 was summarized, then conversation 2, then conversation 1
\* again: each has one row, conversation 1 the later digest.
C17_Witness ==
    /\ last.op = "updateChatSummary"
    /\ last.n = 3
    /\ summaries = {SummaryRow(1, "digest B"), SummaryRow(2, "digest A")}

\* -------------------------------------------------------------------- C20
\* C20: every record recallMemories(c, query) builds an entry from is a
\* record of the archive whose conversation is c and whose similarity to
\* the query is at least 0.4.
C20_RecallScoped ==
    last.op = "recallMemories" =>
        \A r \in last.result :
            /\ r \in archive
            /\ r.chatId = last.c
            /\ Score(last.arg, r.content) >= MIN_SCORE

\* A recall that returned a record while the archive holds a record of the
\* other conversation that matches the query as well, and a record of this
\* conversation below the threshold.
C20_Witness ==
    /\ last.op = "recallMemories"
    /\ last.result # {}
    /\ \E r \in archive : r.chatId # last.c /\ Score(last.arg, r.content) >= MIN_SCORE
    /\ \E r \in archive : r.chatId = last.c /\ Score(last.arg, r.content) < MIN_SCORE


\* ------------------------------------------------------------------- C21
\* The claim's test on a text: at least 10 characters after trimming, and not
\* starting like tool-result JSON.
C21_Qualifies(text) == TrimLen(text) >= 10 /\ ~LooksLikeToolJson(text)

C21_UserRecord(t) == MemTask(turn[t].chatId, "user", turn[t].userText, t)
C21_AnswerRecord(t) == MemTask(turn[t].chatId, "assistant", turn[t].finalText, t)

\* C21 as stated: the utterance of every turn that reached the loop, and the
\* final answer of every turn that gave one, has its record under the turn's
\* conversation id (written, or being written) exactly when the text
\* qualifies.
C21_EveryMessageArchived ==
    \A t \in Turns :
        /\ Begun(t) =>
              (C21_Qualifies(turn[t].userText) <=> C21_UserRecord(t) \in bg \cup archive)
        /\ Answered(t) =>
              (C21_Qualifies(turn[t].finalText) <=> C21_AnswerRecord(t) \in bg \cup archive)

\* The records of turn t are those of its utterance and of its final answer,
\* under its conversation id, of texts that qualify, and only when the turn
\* stores.
C21_OnlyQualifyingRecords ==
    \A r \in bg \cup archive :
        r.by \in Turns =>
            /\ r.chatId = turn[r.by].chatId
            /\ ~turn[r.by].skipStorage
            /\ C21_Qualifies(r.content)
            /\ \/ r = C21_UserRecord(r.by)
               \/ Answered(r.by) /\ r = C21_AnswerRecord(r.by)

\* The step that enters the loop starts the write of the utterance, and the
\* step that takes the final answer starts the write of the answer, exactly
\* when the turn stores and the text qualifies; a write that ends leaves its
\* record in the archive or, having failed, leaves the archive as it was.
C21_WriteStep ==
    /\ \A t \in Turns :
          /\ (~Begun(t) /\ Begun(t)') =>
                ((C21_UserRecord(t)' \in bg') <=>
                    (~turn[t].skipStorage /\ C21_Qualifies(turn[t].userText)))
          /\ (~Answered(t) /\ Answered(t)') =>
                ((C21_AnswerRecord(t)' \in bg') <=>
                    (~turn[t].skipStorage /\ C21_Qualifies(turn'[t].finalText)))
    /\ archive' \subseteq archive \cup bg
    /\ archive \subseteq archive'
    /\ \A r \in bg \ bg' : archive' \in {archive, archive \cup {r}}

\* C21: with semantic recall enabled, a turn that stores starts the archive
\* write of its utterance and of its final answer, under its conversation id,
\* exactly when the trimmed text has at least 10 characters and does not start
\* like tool-result JSON; the record is in the archive when the write
\* succeeds, a failed write leaves none, and skipStorage turns and shorter or
\* JSON-shaped texts produce none.
C21_QualifyingMessagesArchived ==
    []C21_OnlyQualifyingRecords /\ [][C21_WriteStep]_vars

\* A storing turn ended with the records of its utterance and of its answer
\* in the archive, under its conversation id.
C21_Witness ==
    \E t \in Turns :
        /\ Ended(t) /\ ~turn[t].skipStorage /\ VECTOR_MEMORY_ENABLED
        /\ C21_Qualifies(turn[t].userText) /\ Answered(t)
        /\ C21_Qualifies(turn[t].finalText)
        /\ {C21_UserRecord(t), C21_AnswerRecord(t)} \subseteq archive


\* ------------------------------------------------------------------- C24
\* The Usage Records of conversation c that turn t appended.
UsageOf(t, c) ==
    LET ByTurn(u) == u.by = t
    IN  SelectSeq(usage[c], ByTurn)

\* A response of the loop's model call (or of its no-tools retry) arrives:
\* when it carries usage counts, one record with the model id is appended to
\* the ledger of the turn's conversation and nothing else in the ledger
\* changes; when it carries none, the ledger stays as it was.  This is so
\* whichever branch the response takes.
C24_UsageStep ==
    \A t \in Turns : \A resp \in Responses(turn[t]) :
        ModelResponds(t, resp) =>
            LET c == turn[t].chatId
            IN  /\ \A d \in Chats \ {c} : usage'[d] = usage[d]
                /\ usage'[c] = IF resp.usage
                               THEN Append(usage[c], [model |-> "LLM_MODEL", by |-> t])
                               ELSE usage[c]

\* C24: for every model response received in the loop that carries usage
\* counts, exactly one Usage Record with the turn's conversation id and the
\* model id is appended before the loop branches: for a final answer, for a
\* tool-requesting response and for a response with no choices.
C24_UsageRecordedBeforeBranch == [][C24_UsageStep]_vars

\* A turn returned the placeholder for a response with no choices, after a
\* tool-requesting response, and each of the two responses left its record.
C24_Witness ==
    \E t \in Turns :
        /\ turn[t].pc = "done" /\ ~Answered(t)
        /\ turn[t].result = Returned(NoResponse)
        /\ turn[t].toolResps = 1
        /\ Len(UsageOf(t, turn[t].chatId)) = 2

\* ------------------------------------------------------------------- C25
\* C25 as stated: the Usage Records a turn that ended has appended are as
\* many as the model calls it issued: the calls of the loop, the no-tools
\* retries and the summarization call.
C25_OneRecordPerCall ==
    \A t \in Turns :
        Ended(t) =>
            Len(UsageOf(t, turn[t].chatId)) = turn[t].calls + turn[t].summCalls


\* ============================================================ usage ledger
\* usage.ts called on its own: trackUsage and getUsageSummary in any order,
\* MaxCalls calls at most.

\* The rows of the ledger a summary is computed from: those of one chat, or
\* of every chat when no chat id is given.
NoChat == 0
LedgerRows(led, chat) ==
    LET chats == IF chat = NoChat THEN Chats ELSE {chat}
    IN  UNION { { <<c, i>> : i \in 1..Len(led[c]) } : c \in chats }

\* usage.ts:51-109 getUsageSummary: three SELECTs over usage_log.  The rows
\* here are all of the current day, so the same-day count is the total.
getUsageSummary(led, chat) ==
    LET rows == LedgerRows(led, chat)
        models == { led[r[1]][r[2]].model : r \in rows }
    IN  [totalCalls |-> Cardinality(rows),
         todayCalls |-> Cardinality(rows),
         modelBreakdown |->
             { [model |-> m,
                calls |-> Cardinality({ r \in rows : led[r[1]][r[2]].model = m })] :
               m \in models }]

\* A ledger earlier turns left: empty, or with one row of chat 2.
OldLedgers ==
    { [c \in Chats |-> <<>>],
      [c \in Chats |-> IF c = 2 THEN <<UsageRow(0)>> ELSE <<>>] }

UsageInit ==
    /\ usage \in OldLedgers
    /\ last = NoCall
    /\ tools = StartupTools
    /\ modelSupportsTools = TRUE
    /\ store = [c \in Chats |-> <<>>]
    /\ summaries = OldSummaries
    /\ archive = OldArchive
    /\ bg = {}
    /\ turn = [t \in Turns |-> IdleTurn]
    /\ table = [rows |-> <<>>, seq |-> 0]
    /\ clock = 0
    /\ bot = NoBot
    /\ facts = <<>>
    /\ scheduled_tasks = <<>>
    /\ polls = NoPolls
    /\ delivered = <<>>

\* trackUsage({chatId: c, model: LLM_MODEL, ...}), called for turn by (0: for
\* none).
TrackUsage(c, by) ==
    /\ last.n < MaxCalls
    /\ usage' = trackUsage(usage, c, by)
    /\ last' = Call("trackUsage", c, by, 0)
    /\ UNCHANGED <<toolVars, schedVars>>
    /\ UNCHANGED <<bot, tools, modelSupportsTools, store, summaries, archive, bg, turn,
                   table, clock>>

\* getUsageSummary(chat), or getUsageSummary() when chat = NoChat.
GetUsageSummary(chat) ==
    /\ last.n < MaxCalls
    /\ last' = Call("getUsageSummary", chat, 0, getUsageSummary(usage, chat))
    /\ UNCHANGED <<toolVars, schedVars>>
    /\ UNCHANGED <<bot, tools, modelSupportsTools, store, summaries, usage, archive, bg,
                   turn, table, clock>>

UsageNext ==
    \/ \E c \in Chats, by \in {0} \cup Turns : TrackUsage(c, by)
    \/ \E chat \in Chats \cup {NoChat} : GetUsageSummary(chat)

UsageSpec == UsageInit /\ [][UsageNext]_vars

\* ------------------------------------------------------------------- C26
\* The number of rows in the whole ledger.
LedgerSize(led) == Cardinality(LedgerRows(led, NoChat))

\* Every step leaves each row of the ledger where and as it was; a trackUsage
\* step adds one row, to the ledger of its chat; a getUsageSummary step, with
\* or without a chat id, leaves the ledger and every other table as it was.
C26_LedgerStep ==
    /\ \A c \in Chats :
          /\ Len(usage'[c]) >= Len(usage[c])
          /\ SubSeq(usage'[c], 1, Len(usage[c])) = usage[c]
    /\ last'.op = "trackUsage" =>
          /\ LedgerSize(usage') = LedgerSize(usage) + 1
          /\ Len(usage'[last'.c]) = Len(usage[last'.c]) + 1
    /\ last'.op = "getUsageSummary" =>
          /\ usage' = usage
          /\ <<store, summaries, archive, table>>' = <<store, summaries, archive, table>>

\* C26: the ledger is append-only and its queries are read-only: trackUsage
\* adds exactly one Usage Record and changes no existing one; getUsageSummary
\* (totals, same-day totals, per-model breakdown), with or without a chat id,
\* never inserts, updates or deletes a record.
C26_AppendOnlyReadOnly == [][C26_LedgerStep]_vars

\* A summary over every chat was taken of a ledger holding at least two
\* records, one of them added by trackUsage to a non-empty ledger of chat 2.
C26_Witness ==
    /\ last.op = "getUsageSummary" /\ last.c = NoChat
    /\ last.result.totalCalls >= 2
    /\ Len(usage[2]) >= 2


\* ============================================================ tool registry
\* registry.ts called on its own, from the empty Map of module load:
\* registerTool, getTool and getAllToolSchemas in any order, MaxCalls calls at
\* most.

\* The definitions tool modules may register: two names, and two different
\* tools for each.
ToolDefs ==
    { ToolDefinition(name, description) :
        name \in {"get_current_time", "learn_fact"},
        description \in {"Get the current time", "another tool"} }

\* The call recorded in last; log is a history variable: the tools whose
\* registerTool call returned, in the order of the calls.
RegistryCall(op, arg, result, log) ==
    [op |-> op, arg |-> arg, result |-> result, log |-> log, n |-> last.n + 1]

RegistryInit ==
    /\ tools = <<>>
    /\ last = [op |-> "none", log |-> <<>>, n |-> 0]
    /\ modelSupportsTools = TRUE
    /\ store = [c \in Chats |-> <<>>]
    /\ summaries = OldSummaries
    /\ usage = [c \in Chats |-> <<>>]
    /\ archive = OldArchive
    /\ bg = {}
    /\ turn = [t \in Turns |-> IdleTurn]
    /\ table = [rows |-> <<>>, seq |-> 0]
    /\ clock = 0
    /\ bot = NoBot
    /\ facts = <<>>
    /\ scheduled_tasks = <<>>
    /\ polls = NoPolls
    /\ delivered = <<>>

RegisterTool(tool) ==
    /\ last.n < MaxCalls
    /\ LET r == registerTool(tools, tool)
       IN  /\ tools' = r.tools
           /\ last' = RegistryCall("registerTool", tool,
                                   IF r.threw THEN "throws" ELSE "returns",
                                   IF r.threw THEN last.log ELSE Append(last.log, tool))
    /\ UNCHANGED <<toolVars, schedVars>>
    /\ UNCHANGED <<bot, modelSupportsTools, store, summaries, usage, archive, bg, turn,
                   table, clock>>

GetTool(name) ==
    /\ last.n < MaxCalls
    /\ last' = RegistryCall("getTool", name, getTool(name), last.log)
    /\ UNCHANGED <<toolVars, schedVars>>
    /\ UNCHANGED <<bot, tools, modelSupportsTools, store, summaries, usage, archive, bg,
                   turn, table, clock>>

GetAllToolSchemas ==
    /\ last.n < MaxCalls
    /\ last' = RegistryCall("getAllToolSchemas", 0, getAllToolSchemas, last.log)
    /\ UNCHANGED <<toolVars, schedVars>>
    /\ UNCHANGED <<bot, tools, modelSupportsTools, store, summaries, usage, archive, bg,
                   turn, table, clock>>

RegistryNext ==
    \/ \E tool \in ToolDefs : RegisterTool(tool)
    \/ \E name \in ToolNames \cup {"learn_fact"} : GetTool(name)
    \/ GetAllToolSchemas

RegistrySpec == RegistryInit /\ [][RegistryNext]_vars

\* ------------------------------------------------------------------- C27
\* Every name in the registry is bound to exactly one tool.
C27_NamesUnique ==
    \A i, j \in 1..Len(tools) : tools[i].name = tools[j].name => i = j

\* A registerTool call whose name is already registered throws and leaves
\* the registry as it was; any other registerTool call returns.
C27_RegisterStep ==
    last'.op = "registerTool" =>
        IF \E i \in 1..Len(tools) : tools[i].name = last'.arg.name
        THEN last'.result = "throws" /\ tools' = tools
        ELSE last'.result = "returns"

\* C27: registerTool throws when the tool's name is already registered and
\* leaves the registry unchanged, so the originally registered tool stays
\* bound to the name; after any sequence of registerTool calls every name is
\* bound to exactly one tool.
C27_DuplicateNameRejected == []C27_NamesUnique /\ [][C27_RegisterStep]_vars

\* A second, different tool was registered under a registered name: the call
\* threw and the first tool is still the one bound to the name.
C27_Witness ==
    /\ last.op = "registerTool" /\ last.result = "throws"
    /\ \E i \in 1..Len(tools) :
          tools[i].name = last.arg.name /\ tools[i] # last.arg

\* ------------------------------------------------------------------- C28
\* The tools whose registration returned and that carry the name.
C28_RegisteredUnder(name) ==
    { last.log[i] : i \in { j \in 1..Len(last.log) : last.log[j].name = name } }

\* C28: after any sequence of registerTool calls, getTool(name) returns the
\* tool registered under name, and nothing for a name never registered;
\* getAllToolSchemas returns exactly one entry, with the name, description
\* and parameters, for each registered tool and nothing else.
C28_LookupsMatchRegistrations ==
    /\ last.op = "getTool" =>
          IF C28_RegisteredUnder(last.arg) = {}
          THEN last.result = Undefined
          ELSE C28_RegisteredUnder(last.arg) = {last.result}
    /\ last.op = "getAllToolSchemas" =>
          /\ Len(last.result) = Len(last.log)
          /\ \A i \in 1..Len(last.log) :
                last.result[i] =
                    [type |-> "function",
                     function |-> [name |-> last.log[i].name,
                                   description |-> last.log[i].description,
                                   parameters |-> last.log[i].parameters]]

\* With two tools registered, getTool found the second of them.
C28_Witness ==
    /\ last.op = "getTool"
    /\ Len(last.log) = 2
    /\ last.result = last.log[2]


\* ================================================== turns side by side
\* Two runAgent invocations in one process, their awaits interleaved in any
\* order, from a process that believes the model supports tools.  The inputs
\* are narrowed to one utterance, one answer, one tool call per response and
\* one model error; the conversations are short, so no turn summarizes.

ConcInit ==
    /\ tools = StartupTools
    /\ modelSupportsTools = TRUE
    /\ store = [c \in Chats |-> IF c = 2 THEN OldRows(2) ELSE <<>>]
    /\ summaries = OldSummaries
    /\ usage = [c \in Chats |-> <<>>]
    /\ archive = OldArchive
    /\ bg = {}
    /\ turn = [t \in Turns |-> IdleTurn]
    /\ table = [rows |-> <<>>, seq |-> 0]
    /\ clock = 0
    /\ last = NoCall
    /\ bot = NoBot
    /\ facts = <<>>
    /\ scheduled_tasks = <<>>
    /\ polls = NoPolls
    /\ delivered = <<>>

ConcTexts == {"hi"}
ConcErrors == {[status |-> 400, fragments |-> {}], [status |-> 500, fragments |-> {}]}

ConcResponses(tr) ==
    {Response(TRUE, "final", "here is the answer", <<>>)}
    \cup IF tr.req.tools
         THEN {Response(TRUE, "tools", NullContent,
                        <<Request(CallId(tr.iterations, 1), "get_current_time", "")>>)}
         ELSE {}

\* The steps of turn t; a slot is taken after the slots before it.
ConcTurnStep(t) ==
    \/ \E c \in Chats, text \in ConcTexts :
          /\ \A u \in Turns : u < t => Started(u)
          /\ StartTurn(t, c, text, FALSE)
    \/ RecallReturns(t, TRUE)
    \/ \E err \in ConcErrors : ModelFails(t, err)
    \/ \E resp \in ConcResponses(turn[t]) : ModelResponds(t, resp)
    \/ ToolReturns(t, TRUE)

ConcNext ==
    \/ \E t \in Turns : ConcTurnStep(t)
    \/ \E task \in bg : RememberFinishes(task, TRUE)

ConcSpec == ConcInit /\ [][ConcNext]_vars


\* ------------------------------------------------------------------- C23
\* Once the tools flag is off it stays off, and a model call started by any
\* turn in a step that leaves the flag off carries no tool schemas.
C23_FlagStep ==
    /\ ~modelSupportsTools => ~modelSupportsTools'
    /\ \A t \in Turns :
          (turn'[t].calls > turn[t].calls /\ ~modelSupportsTools') =>
              ~turn'[t].req.tools

\* C23: the tools flag is a single process-wide value: once any turn has set
\* it off, every model call started afterwards, in every conversation, omits
\* the tool schemas, and nothing sets it back on.
C23_FlagOffForEveryConversation == [][C23_FlagStep]_vars

\* A turn of one conversation retried without tools and set the flag off; a
\* turn of another conversation, which never saw an error, has a model call
\* without tool schemas in flight.
C23_Witness ==
    \E t, u \in Turns :
        /\ turn[t].retries = 1
        /\ turn[u].chatId # turn[t].chatId
        /\ turn[u].pc = "call" /\ turn[u].retries = 0
        /\ ~turn[u].req.tools
        /\ getAllToolSchemas # <<>>
        /\ ~modelSupportsTools


\* ------------------------------------------------------------------- C30
\* C30: concurrent turns for the same conversation are not serialized: while
\* a turn of a conversation is in flight, runAgent can be entered for the
\* same conversation in a free slot, and the turn in flight can take its next
\* step whatever the other turn is doing.  (The interleavings the claim
\* names are the states of C30_Witness.)
C30_NotSerialized ==
    \A t, u \in Turns :
        (InFlight(u) /\ turn[t].pc = "idle") =>
            /\ \A text \in ConcTexts : ENABLED StartTurn(t, turn[u].chatId, text, FALSE)
            /\ ENABLED ConcTurnStep(u)

\* Two turns of one conversation: a row of u sits between the assistant
\* tool-call row of t and the tool-result row of t, the utterance of t is
\* stored, and the model input of u, whose loop has begun, holds the
\* utterance of u only.
C30_Witness ==
    \E t, u \in Turns :
        LET c == turn[t].chatId
            rows == store[c]
        IN  /\ t # u /\ turn[u].chatId = c /\ c \in Chats
            /\ \E i, j, k \in 1..Len(rows) :
                  /\ i < j /\ j < k
                  /\ rows[i].by = t /\ rows[i].role = "assistant"
                  /\ rows[i].tool_calls # <<>>
                  /\ rows[j].by = u
                  /\ rows[k].by = t /\ rows[k].role = "tool"
            /\ \E i \in 1..Len(rows) : rows[i].by = t /\ rows[i].role = "user"
            /\ Begun(u)
            /\ Cardinality({n \in 1..Len(turn[u].messages) :
                               turn[u].messages[n].role = "user"}) = 1
            /\ Cardinality({n \in 1..Len(rows) : rows[n].role = "user"}) = 2


\* ========================================================= the Telegram bot
\* bot.ts under bot.start(): updates are taken one at a time, each through the
\* middleware and then its handler; the next update is taken when the handler
\* of the one before has returned.  The handlers here are /new, /usage and
\* message:text; turns take the inputs of ConcSpec.

\* config.ts:28-32: the ids parsed from ALLOWED_USER_IDS
ALLOWED_USER_IDS == {7}

\* ctx.from?.id of an update without a sender
NoSender == 0
Senders == {NoSender, 7, 8}
UpdateKinds == {"/new", "/usage", "message:text"}

\* The middleware letting every update with a sender through.
Allowed_AnySender(from) == from # NoSender

\* bot.ts:39-43: the middleware calls next()
Allowed(from) == from # NoSender /\ from \in ALLOWED_USER_IDS

\* memory.ts:127-130 clearHistory (dbClearHistory in agent.ts): DELETE FROM
\* conversation_history WHERE chat_id = c
dbClearHistory(st, c) == [st EXCEPT ![c] = <<>>]

\* clearVectorMemory with the delete request never sent.
clearVectorMemory_NothingDeleted(arch, c, ok) == arch

\* vector-memory.ts:217-228 clearVectorMemory: the points whose payload has
\* chatId = c are deleted (ok), or the request failed and was logged.
clearVectorMemory(arch, c, ok) ==
    IF ok THEN {r \in arch : r.chatId # c} ELSE arch

\* agent.ts:313-319 clearHistory(c) is called and runs up to the await of
\* clearVectorMemory.  before and quiet are history variables: the turns that
\* had ended, and whether no turn and no archive write of c was in flight.
ClearHistoryCalled(c) ==
    /\ store' = dbClearHistory(store, c)
    /\ last' = [op |-> "clearHistory", c |-> c,
                pc |-> IF VECTOR_MEMORY_ENABLED THEN "deleting" ELSE "returned",
                ok |-> TRUE,
                before |-> {t \in Turns : Ended(t)},
                quiet |-> /\ \A t \in Turns : InFlight(t) => turn[t].chatId # c
                          /\ \A task \in bg : task.chatId # c,
                n |-> last.n + 1]

\* clearVectorMemory returned, and with it clearHistory: agent.ts:317-318.
ClearVectorMemoryReturns(ok) ==
    /\ last.op = "clearHistory" /\ last.pc = "deleting"
    /\ archive' = clearVectorMemory(archive, last.c, ok)
    /\ last' = [last EXCEPT !.pc = "returned", !.ok = ok]
    /\ UNCHANGED <<toolVars, schedVars>>
    /\ UNCHANGED <<tools, modelSupportsTools, store, summaries, usage, bg, turn,
                   table, clock, bot>>

Reply(chat, text) == [chat |-> chat, text |-> text]

BotInit ==
    /\ tools = StartupTools
    /\ modelSupportsTools = TRUE
    /\ store = [c \in Chats |-> IF c = 2 THEN OldRows(2) ELSE <<>>]
    /\ summaries = OldSummaries
    /\ usage = [c \in Chats |-> <<>>]
    /\ archive = OldArchive
    /\ bg = {}
    /\ turn = [t \in Turns |-> IdleTurn]
    /\ table = [rows |-> <<>>, seq |-> 0]
    /\ clock = 0
    /\ last = NoCall
    /\ bot = NoBot
    /\ facts = <<>>
    /\ scheduled_tasks = <<>>
    /\ polls = NoPolls
    /\ delivered = <<>>

\* An update of kind kind from sender from in chat chat is taken: the
\* middleware (bot.ts:39-43), then the handler up to its first await or its
\* end.  /new (bot.ts:100-103) calls clearHistory without awaiting it and
\* replies; /usage (bot.ts:96-98) replies with the summary; message:text
\* (bot.ts:155-157) awaits the chat action.  One clearHistory runs at a time.
Update(from, chat, kind, text) ==
    /\ bot.updates < MaxCalls
    /\ bot.awaiting = {}
    /\ IF ~Allowed(from)
       THEN /\ bot' = [bot EXCEPT !.updates = @ + 1, !.from = from]
            /\ UNCHANGED <<store, last>>
       ELSE LET b == [bot EXCEPT !.updates = @ + 1, !.from = from, !.handled = @ + 1]
            IN  CASE kind = "/new" ->
                       /\ last.op = "clearHistory" => last.pc = "returned"
                       /\ ClearHistoryCalled(chat)
                       /\ bot' = [b EXCEPT !.replies =
                                      Append(@, Reply(chat, "History cleared."))]
                  [] kind = "/usage" ->
                       /\ bot' = [b EXCEPT !.replies =
                                      Append(@, Reply(chat, getUsageSummary(usage, chat)))]
                       /\ UNCHANGED <<store, last>>
                  [] kind = "message:text" ->
                       /\ b.texts < MaxTurns
                       /\ bot' = [b EXCEPT !.texts = @ + 1,
                                           !.awaiting = {[chat |-> chat, text |-> text]}]
                       /\ UNCHANGED <<store, last>>
    /\ UNCHANGED <<toolVars, schedVars>>
    /\ UNCHANGED <<tools, modelSupportsTools, summaries, usage, archive, bg, turn,
                   table, clock>>

\* bot.ts:158: the message:text handler calls runAgent(ctx.chat.id,
\* ctx.message.text), in the slot of its update, and awaits it.
RunAgentCalled(t) ==
    /\ t = bot.texts
    /\ \E u \in bot.awaiting : StartTurn(t, u.chat, u.text, FALSE)

\* bot.ts:159-163: runAgent returned and the response is sent, or it threw
\* and the error reply is sent; the handler ends.
HandlerEnds(t) ==
    /\ t = bot.texts
    /\ bot.awaiting # {}
    /\ Ended(t)
    /\ \E u \in bot.awaiting :
          bot' = [bot EXCEPT !.awaiting = {},
                             !.replies = Append(@, Reply(u.chat,
                                 IF turn[t].result.kind = "return"
                                 THEN turn[t].result.value ELSE "Agent error."))]
    /\ UNCHANGED <<toolVars, schedVars>>
    /\ UNCHANGED <<tools, modelSupportsTools, store, summaries, usage, archive, bg, turn,
                   table, clock, last>>

\* The steps of the turn in slot t after runAgent was called.
BotTurnStep(t) ==
    \/ RecallReturns(t, TRUE)
    \/ \E err \in ConcErrors : ModelFails(t, err)
    \/ \E resp \in ConcResponses(turn[t]) : ModelResponds(t, resp)
    \/ ToolReturns(t, TRUE)

BotNext ==
    \/ \E from \in Senders, chat \in Chats, kind \in UpdateKinds, text \in ConcTexts :
          Update(from, chat, kind, text)
    \/ \E t \in Turns : RunAgentCalled(t) \/ BotTurnStep(t) \/ HandlerEnds(t)
    \/ \E task \in bg : RememberFinishes(task, TRUE)
    \/ \E ok \in BOOLEAN : ClearVectorMemoryReturns(ok)

BotSpec == BotInit /\ [][BotNext]_vars


\* ------------------------------------------------------------------- C29
\* The step that takes an update whose sender is missing or is not in
\* ALLOWED_USER_IDS runs no handler, sends no reply, starts no turn and
\* leaves every table, the archive, the tools flag and the registry as they
\* were.
C29_UpdateStep ==
    (bot'.updates = bot.updates + 1
        /\ (bot'.from = NoSender \/ bot'.from \notin ALLOWED_USER_IDS)) =>
            /\ bot'.handled = bot.handled
            /\ bot'.replies = bot.replies
            /\ bot'.awaiting = bot.awaiting /\ bot'.texts = bot.texts
            /\ turn' = turn
            /\ <<store, summaries, usage, archive, bg>>' = <<store, summaries, usage, archive, bg>>
            /\ <<tools, modelSupportsTools, last>>' = <<tools, modelSupportsTools, last>>

\* C29: an update from a Telegram user whose id is not in ALLOWED_USER_IDS,
\* or with no sender id, is silently ignored: no handler runs, no agent turn
\* is started, no stored state changes and no reply is sent.
C29_UnauthorizedIgnored == [][C29_UpdateStep]_vars

\* After an update of an allowed user was handled and answered, an update of
\* a user outside the list was taken, and the replies are still the ones of
\* the handled update.
C29_Witness ==
    /\ bot.from # NoSender /\ bot.from \notin ALLOWED_USER_IDS
    /\ bot.updates = 2 /\ bot.handled = 1
    /\ Len(bot.replies) = 1
    /\ bot.awaiting = {}

\* ------------------------------------------------------------------- C22
\* The Memory Records scoped to conversation c.
RecordsOf(arch, c) == {r \in arch : r.chatId = c}

\* clearHistory returns in this step.
C22_Completes ==
    /\ last.op = "clearHistory" /\ last.pc = "deleting"
    /\ last'.pc = "returned"

\* C22 as stated: when clearHistory(c) completes, the store holds no row of c
\* and the archive holds no Memory Record scoped to c, also when turns of c
\* are in flight or the archive delete call failed.
C22_ClearedStep ==
    C22_Completes =>
        /\ store'[last.c] = <<>>
        /\ RecordsOf(archive', last.c) = {}
C22_AlwaysCleared == [][C22_ClearedStep]_vars

\* No turn and no archive write of c was in flight when clearHistory(c) was
\* called, and no turn of c was started since.
C22_Quiet ==
    /\ last.quiet
    /\ \A t \in Turns : turn[t].chatId = last.c => t \in last.before

\* The call of clearHistory(c) deletes the rows of c and no other row; when
\* it completes after a successful delete call the archive holds no record of
\* c and every record of the other conversations, and the store holds no row
\* of c if no turn of c was in flight meanwhile; when the delete call failed
\* the archive is as it was.
C22_ClearStep ==
    /\ (last'.op = "clearHistory" /\ last'.n = last.n + 1) =>
          /\ store'[last'.c] = <<>>
          /\ \A d \in Chats \ {last'.c} : store'[d] = store[d]
    /\ C22_Completes =>
          /\ last'.ok => /\ RecordsOf(archive', last.c) = {}
                         /\ archive' = archive \ RecordsOf(archive, last.c)
          /\ ~last'.ok => archive' = archive
          /\ (last'.ok /\ C22_Quiet) => store'[last.c] = <<>>
          /\ (last'.ok /\ C22_Quiet) => RecordsOf(bg', last.c) = {}

\* C22: after clearHistory(c) has completed with its archive delete call
\* successful and with no turn and no archive write of c in flight since its
\* call, the store holds no row of c and (recall enabled) the archive holds no
\* Memory Record scoped to c; rows that turns of c write after the call stay,
\* and a failed delete call leaves the records of c in the archive.
C22_ClearedWhenQuietAndDeleted == [][C22_ClearStep]_vars

\* clearHistory completed, after a successful delete call, for a conversation
\* that had rows and records, one of whose turns had ended before the call;
\* neither rows nor records of it are left.
C22_Witness ==
    /\ last.op = "clearHistory" /\ last.pc = "returned" /\ last.ok
    /\ C22_Quiet
    /\ \E t \in last.before : turn[t].chatId = last.c /\ Answered(t)
    /\ store[last.c] = <<>>
    /\ RecordsOf(archive, last.c) = {}


\* ======================================================= stored transcripts
\* The Conversation Store of a conversation as earlier turns left it, then
\* read by loadHistory and pruned by a summarization (agent.ts:210, 279).

\* Number of earlier turns of the conversation.
PairTurns == 9

\* The rows a turn writes that answers after one response with n tool calls
\* (n = 0: it answers at once): agent.ts:131, 219-221, 248, 200.
TurnRows(n) ==
    LET calls == [k \in 1..n |-> Request(CallId(1, k), "get_current_time", "")]
    IN  <<RowOf(UserMsg("old question"), 0)>>
        \o (IF n = 0 THEN <<>>
            ELSE <<RowOf(AssistantCalls(NullContent, calls), 0)>>
                 \o [k \in 1..n |-> RowOf(ToolMsg(calls[k].id, ToolResultText), 0)])
        \o <<RowOf(AssistantText("old answer"), 0)>>

RECURSIVE TurnsRows(_)
\* The rows of the turns with the tool-call counts ns, one after the other.
TurnsRows(ns) == IF ns = <<>> THEN <<>> ELSE TurnRows(Head(ns)) \o TurnsRows(Tail(ns))

PairInit ==
    /\ \E ns \in [1..PairTurns -> 0..MaxToolCalls] :
          store = [c \in Chats |-> IF c = 1 THEN TurnsRows(ns) ELSE <<>>]
    /\ last = NoCall
    /\ tools = StartupTools
    /\ modelSupportsTools = TRUE
    /\ summaries = OldSummaries
    /\ usage = [c \in Chats |-> <<>>]
    /\ archive = OldArchive
    /\ bg = {}
    /\ turn = [t \in Turns |-> IdleTurn]
    /\ table = [rows |-> <<>>, seq |-> 0]
    /\ clock = 0
    /\ bot = NoBot
    /\ facts = <<>>
    /\ scheduled_tasks = <<>>
    /\ polls = NoPolls
    /\ delivered = <<>>

\* runAgent loads the transcript: agent.ts:101.
PairLoad(c) ==
    /\ last.n < MaxCalls
    /\ last' = Call("loadHistory", c, 0, loadHistory(store, c))
    /\ UNCHANGED <<toolVars, schedVars>>
    /\ UNCHANGED <<tools, modelSupportsTools, store, summaries, usage, archive, bg, turn,
                   table, clock, bot>>

\* A summarization of a conversation above the threshold prunes it:
\* agent.ts:210 and 279.
PairPrune(c) ==
    /\ last.n < MaxCalls
    /\ countMessages(store, c) > SUMMARIZE_THRESHOLD
    /\ store' = pruneHistory(store, c, KEEP_LAST)
    /\ last' = Call("pruneHistory", c, KEEP_LAST, 0)
    /\ UNCHANGED <<toolVars, schedVars>>
    /\ UNCHANGED <<tools, modelSupportsTools, summaries, usage, archive, bg, turn,
                   table, clock, bot>>

PairNext == \E c \in Chats : PairLoad(c) \/ PairPrune(c)

PairSpec == PairInit /\ [][PairNext]_vars

\* ------------------------------------------------------------------- C31
\* In the transcript ms every tool message follows, with tool messages only
\* in between, an assistant message that requests its id, and every request
\* of an assistant message has its tool message behind it.
WellPaired(ms) ==
    /\ \A i \in 1..Len(ms) :
          ms[i].role = "tool" =>
              \E j \in 1..(i - 1) :
                  /\ ms[j].role = "assistant"
                  /\ \E k \in 1..Len(ms[j].tool_calls) :
                        ms[j].tool_calls[k].id = ms[i].tool_call_id
                  /\ \A n \in (j + 1)..(i - 1) : ms[n].role = "tool"
    /\ \A j \in 1..Len(ms) :
          \A k \in 1..Len(ms[j].tool_calls) :
              /\ j + k <= Len(ms)
              /\ ms[j + k].role = "tool"
              /\ ms[j + k].tool_call_id = ms[j].tool_calls[k].id

\* C31: in the Conversation Store, and in every transcript loaded from it,
\* each tool message is preceded by the assistant message that holds its
\* request, and each assistant tool-call message has its results: window
\* loads and summarization prunes never leave one without the other.
C31_RequestsAndResultsPaired ==
    /\ \A c \in Chats : WellPaired([i \in 1..Len(store[c]) |-> MsgOf(store[c][i])])
    /\ last.op = "loadHistory" => WellPaired(last.result)


\* ============================================= saved and reloaded messages
\* The message read back by loadHistory for the row saveMessage wrote last:
\* the newest message of the loaded transcript.
ReadBack(ms) == IF ms = <<>> THEN Undefined ELSE ms[Len(ms)]

C32_SaveThenLoad ==
    /\ last.op = "saveMessage"
    /\ last'.op = "loadHistory"
    /\ last'.c = last.c

\* C32: a message saved with saveMessage and read back with loadHistory keeps
\* its role, its text content, the assistant's tool-call requests in order with
\* their ids, and the tool message's correlation id (an assistant tool-call
\* message saved without text reloads with null content): whenever loadHistory
\* of a conversation directly follows a saveMessage to it, the newest message
\* of the loaded transcript is the message that was saved.
C32_RoundTripPreserved ==
    [][C32_SaveThenLoad => ReadBack(last'.result) = last.arg]_vars

\* The same round trip, for a conversation whose rows all fit the loaded
\* window.
C32_RoundTripWithinWindow ==
    [][(C32_SaveThenLoad /\ countMessages(StoreOf(table), last.c) <= MAX_HISTORY)
          => ReadBack(last'.result) = last.arg]_vars


\* ================================================= summarized and pruned rows
\* Rows of chat 2 when the summarizations of the turns before failed or
\* returned nothing: the count stayed above the threshold and kept growing.
LongRows == SUMMARIZE_THRESHOLD + 4

SummInit ==
    /\ tools = StartupTools
    /\ modelSupportsTools \in BOOLEAN
    /\ store = [c \in Chats |-> IF c = 2 THEN OldRows(LongRows) ELSE <<>>]
    /\ summaries = OldSummaries
    /\ usage = [c \in Chats |-> <<>>]
    /\ archive = OldArchive
    /\ bg = {}
    /\ turn = [t \in Turns |-> IdleTurn]
    /\ table = [rows |-> <<>>, seq |-> 0]
    /\ clock = 0
    /\ last = NoCall
    /\ bot = NoBot
    /\ facts = <<>>
    /\ scheduled_tasks = <<>>
    /\ polls = NoPolls
    /\ delivered = <<>>

\* One runAgent invocation on a conversation that is already long.
SummSpec == SummInit /\ [][Next]_vars

\* Row i of a start-up conversation was in the transcript of a summarization
\* call of an earlier turn: those turns loaded the oldest MAX_HISTORY rows,
\* and the ones that ended above the threshold added their own utterance.
OfferedBefore(rows, i) ==
    \/ i <= MAX_HISTORY
    \/ /\ rows[i].by = 0
       /\ rows[i].role = "user"
       /\ i >= SUMMARIZE_THRESHOLD

\* Row i of the conversation of turn t is in the history array the turn
\* hands to runSummarization: the rows it loaded, and its utterance.
OfferedByTurn(t, rows, i) ==
    \/ i <= Len(turn[t].history) - 1
    \/ rows[i] = RowOf(UserMsg(turn[t].userText), t)

\* The summarization awaited by turn t returns and rows are deleted.
C33_PruneStep(t) ==
    /\ turn[t].pc = "summ"
    /\ turn'[t].pc = "done"
    /\ Len(store'[turn[t].chatId]) < Len(store[turn[t].chatId])

\* C33: every message the summarization prune of a turn deletes was part of
\* the transcript text handed to a summarization call, of that turn or of an
\* earlier one.
C33_DeletedWereSummarized ==
    [][\A t \in SoloTurns :
          C33_PruneStep(t) =>
             LET rows == store[turn[t].chatId]
             IN  \A i \in 1..(Len(rows) - Len(store'[turn[t].chatId])) :
                    OfferedByTurn(t, rows, i) \/ OfferedBefore(rows, i)]_vars


\* =================================================== digest before the prune
\* Rows of conversation c are deleted in the step.
RowsDeleted(c) == Len(store'[c]) < Len(store[c])

\* Turn t is the one whose awaited summarization returns in the step.
SummarizationEnds(t) == turn[t].pc = "summ" /\ turn'[t].pc = "done"

\* C34: the loop prunes only after a new, non-empty digest was stored in the
\* same summarization: whenever rows of a conversation are deleted, the step
\* is the return of the summarization call of a turn of that conversation,
\* and with it the conversation's summary has become that turn's digest.
C34_PruneStep ==
    \A c \in Chats :
        RowsDeleted(c) =>
            \E t \in Turns :
                /\ SummarizationEnds(t)
                /\ turn[t].chatId = c
                /\ Digest(t) # ""
                /\ getChatSummary(summaries', c) = Digest(t)
                /\ store' = pruneHistory(store, c, KEEP_LAST)

C34_PruneOnlyAfterDigest == [][C34_PruneStep]_vars

\* A turn whose summarization stored its digest and pruned the rows.
C34_Witness ==
    \E t \in Turns :
        /\ turn[t].pc = "done"
        /\ turn[t].summCalls = 1
        /\ turn[t].chatId = 2
        /\ getChatSummary(summaries, 2) = Digest(t)
        /\ countMessages(store, 2) = KEEP_LAST


\* ================================================== model calls of one turn
\* C35: a turn issues at most MAX_AGENT_ITERATIONS + 1 model calls, the
\* summarization call not counted: one per iteration, and at most one
\* no-tools retry in the whole turn, also while another turn runs and
\* switches the tools flag off.
C35_CallsBounded ==
    \A t \in Turns :
        /\ turn[t].calls = turn[t].iterations + turn[t].retries
        /\ turn[t].iterations <= MAX_AGENT_ITERATIONS
        /\ turn[t].retries <= 1
        /\ turn[t].calls <= MAX_AGENT_ITERATIONS + 1

\* A turn that issued MAX_AGENT_ITERATIONS + 1 model calls, its retry coming
\* after another turn had retried and switched the flag off.
C35_Witness ==
    \E t \in Turns : \E u \in Turns \ {t} :
        /\ turn[t].calls = MAX_AGENT_ITERATIONS + 1
        /\ turn[t].pc = "retry"
        /\ turn[u].retries = 1
        /\ turn[u].pc = "retry"


\* ============================================================ writing tools
\* The registry after memory-tools.ts and reminders.ts were imported too.
AgentTools ==
    StartupTools
    \o <<ToolDefinition("learn_fact", "Save a fact about the user"),
         ToolDefinition("set_reminder", "Set a reminder for the user")>>

\* The facts earlier turns learned: one per conversation.
OldFacts == [c \in 1..2 |-> [chat_id |-> ToString(c), fact |-> "old fact"]]

ToolInit ==
    /\ tools = AgentTools
    /\ modelSupportsTools = TRUE
    /\ store = [c \in Chats |-> IF c = 2 THEN OldRows(2) ELSE <<>>]
    /\ summaries = OldSummaries
    /\ usage = [c \in Chats |-> <<>>]
    /\ archive = OldArchive
    /\ bg = {}
    /\ turn = [t \in Turns |-> IdleTurn]
    /\ table = [rows |-> <<>>, seq |-> 0]
    /\ clock = 0
    /\ last = NoCall
    /\ bot = NoBot
    /\ facts = OldFacts
    /\ scheduled_tasks = <<>>
    /\ polls = NoPolls
    /\ delivered = <<>>

ToolResponses(tr) ==
    {Response(TRUE, "final", "here is the answer", <<>>)}
    \cup IF tr.req.tools
         THEN { Response(TRUE, "tools", NullContent, l) : l \in WriteCallLists(tr.iterations) }
         ELSE {}

\* One runAgent invocation whose model asks for the writing tools.
ToolTurnStep(t) ==
    \/ \E c \in Chats : StartTurn(t, c, "hi", FALSE)
    \/ RecallReturns(t, TRUE)
    \/ \E resp \in ToolResponses(turn[t]) : ModelResponds(t, resp)
    \/ \E ok \in BOOLEAN : ToolReturns(t, ok)

ToolNext == \E t \in SoloTurns : ToolTurnStep(t)

ToolSpec == ToolInit /\ [][ToolNext]_vars

\* The rows of a table that carry conversation c.
RowsOfChat(rows, c) == SelectSeq(rows, LAMBDA r : r.chat_id = ToString(c))

\* The executor awaited by turn t is about to return: what it was given.
AwaitedInput(t) == ExecutorInput(Head(turn[t].pending), turn[t].chatId)

\* C36: every tool executor is invoked with chatId equal to the conversation
\* id of the turn, whatever the model put in the argument JSON, so that
\* learn_fact and set_reminder write only under the issuing conversation: the
\* return of an executor leaves the facts and reminders of every other
\* conversation as they were, and every row it adds carries the turn's
\* conversation.
C36_ExecutorStep ==
    \A t \in Turns :
        turn[t].pc = "tool" =>
            /\ AwaitedInput(t).chatId = turn[t].chatId
            /\ \A c \in Chats \ {turn[t].chatId} :
                  /\ RowsOfChat(facts', c) = RowsOfChat(facts, c)
                  /\ RowsOfChat(scheduled_tasks', c) = RowsOfChat(scheduled_tasks, c)
            /\ Len(facts') + Len(scheduled_tasks') <= Len(facts) + Len(scheduled_tasks) + 1

C36_ChatIdOverridden == [][C36_ExecutorStep]_vars

\* A turn of conversation 1 whose model asked for learn_fact and
\* set_reminder with chatId 2 in the arguments, after both executors wrote.
C36_Witness ==
    \E t \in Turns :
        /\ turn[t].chatId = 1
        /\ Len(RowsOfChat(facts, 1)) = 2
        /\ Len(RowsOfChat(scheduled_tasks, 1)) = 1
        /\ \E i \in 1..Len(turn[t].messages) :
              /\ turn[t].messages[i].tool_calls # <<>>
              /\ \A k \in 1..Len(turn[t].messages[i].tool_calls) :
                    LET a == JsonParse(turn[t].messages[i].tool_calls[k].args)
                    IN  "chatId" \in DOMAIN a /\ a.chatId = 2


\* ==================================================== tool calls in order
\* The tool messages that directly follow message j of a message list.
RECURSIVE ResultsAfter(_, _)
ResultsAfter(ms, j) ==
    IF j < Len(ms) /\ ms[j + 1].role = "tool"
    THEN <<ms[j + 1]>> \o ResultsAfter(ms, j + 1)
    ELSE <<>>

\* The results after the tool-call message at j answer its first requests,
\* one each, in the order requested.
AnswersInOrder(ms, j) ==
    LET reqs == ms[j].tool_calls
        res == ResultsAfter(ms, j)
    IN  /\ Len(res) <= Len(reqs)
        /\ \A k \in 1..Len(res) : res[k].tool_call_id = reqs[k].id

\* The index of the last tool-call message of a message list, or 0.
LastCalls(ms) ==
    IF \E j \in 1..Len(ms) : ms[j].tool_calls # <<>>
    THEN CHOOSE j \in 1..Len(ms) :
            /\ ms[j].tool_calls # <<>>
            /\ \A i \in (j + 1)..Len(ms) : ms[i].tool_calls = <<>>
    ELSE 0

\* At every point of a turn: the results in the message list answer the
\* requests in order; the executor awaited is the one of the first request
\* without a result; and once the loop has gone on to a model call or the
\* turn has returned, every request has its result.
C37_OneAtATimeInOrder ==
    \A t \in Turns :
        LET ms == turn[t].messages
            j == LastCalls(ms)
        IN  /\ \A i \in 1..Len(ms) : ms[i].tool_calls # <<>> => AnswersInOrder(ms, i)
            /\ \A i \in 1..Len(ms) :
                  (ms[i].tool_calls # <<>> /\ (i # j \/ turn[t].pc \notin {"tool", "thrown"}))
                      => Len(ResultsAfter(ms, i)) = Len(ms[i].tool_calls)
            /\ turn[t].pc = "tool" =>
                  /\ j > 0
                  /\ turn[t].pending =
                        SubSeq(ms[j].tool_calls, Len(ResultsAfter(ms, j)) + 1,
                               Len(ms[j].tool_calls))
                  /\ turn[t].pending # <<>>
                  /\ turn[t].batch = ResultsAfter(ms, j)

\* A step that inserts tool rows inserts the results of the last tool-call
\* message of the turn, one per request, in the order requested.
C37_BatchStep ==
    \A t \in Turns :
        LET c == turn[t].chatId
            ms == turn'[t].messages
            j == LastCalls(ms)
        IN  (/\ turn[t].pc = "tool" \/ turn'[t].toolResps > turn[t].toolResps
             /\ \E i \in (Len(store[c]) + 1)..Len(store'[c]) : store'[c][i].role = "tool")
            => LET new == SelectSeq(SubSeq(store'[c], Len(store[c]) + 1, Len(store'[c])),
                                    LAMBDA r : r.role = "tool")
               IN  /\ Len(new) = Len(ms[j].tool_calls)
                   /\ \A k \in 1..Len(new) :
                         /\ new[k] = RowOf(ms[j + k], t)
                         /\ new[k].tool_name = ms[j].tool_calls[k].id

Skipping(t) == Begun(t) /\ turn[t].skipStorage

\* C38: a turn started with skipStorage never writes its utterance to the
\* Conversation Store nor to the semantic archive, while its assistant
\* tool-call messages (at once), its tool results (once the loop over the
\* response's tool calls has ended) and its final answer are in the store.
C38_OnlyUtteranceSkipped ==
    \A t \in Turns :
        Skipping(t) =>
            LET c == turn[t].chatId
                ms == turn[t].messages
            IN  /\ \A i \in 1..Len(store[c]) :
                      ~(store[c][i].by = t /\ store[c][i].role = "user")
                /\ \A r \in archive \cup bg : ~(r.by = t /\ r.role = "user")
                /\ \A i \in OwnIndices(t) :
                      (ms[i].tool_calls # <<>> \/ BatchOver(t, i)) =>
                          Stored(c, RowOf(ms[i], t))
                /\ Answered(t) => Stored(c, RowOf(AssistantText(turn[t].finalText), t))

\* A turn started with skipStorage that returned its answer after a response
\* with two tool calls: the tool-call message, the two results and the answer
\* are its four rows.
C38_Witness ==
    \E t \in Turns :
        /\ Skipping(t)
        /\ turn[t].pc = "done"
        /\ Answered(t)
        /\ turn[t].userText = "what did we plan"
        /\ Len(turn[t].messages) = OwnFrom(t) + 2
        /\ Len(OwnRows(t)) = 4


\* ================================================ conversations side by side
\* A point of the Qdrant collection: the payload rememberMessage writes and
\* the id it draws, Date.now() + Math.floor(Math.random() * 1000).
Point(id, task) ==
    [id |-> id, chatId |-> task.chatId, role |-> task.role, content |-> task.content,
     by |-> task.by]

\* The ids of the points written before the turns observed, one per
\* conversation, and the ids two writes less than a second apart may draw:
\* Date.now() differs by less than the range of the random term.
OldPointIds == Chats
NewPointIds == {3, 4}

\* The archive of ConcInit with the ids of its points.
IsoInit ==
    /\ tools = StartupTools
    /\ modelSupportsTools = TRUE
    /\ store = [c \in Chats |-> IF c = 2 THEN OldRows(2) ELSE <<>>]
    /\ summaries = OldSummaries
    /\ usage = [c \in Chats |-> <<>>]
    /\ archive = {Point(c, MemTask(c, "user", "what did we plan", 0)) : c \in OldPointIds}
    /\ bg = {}
    /\ turn = [t \in Turns |-> IdleTurn]
    /\ table = [rows |-> <<>>, seq |-> 0]
    /\ clock = 0
    /\ last = NoCall
    /\ bot = NoBot
    /\ facts = OldFacts
    /\ scheduled_tasks = <<>>
    /\ polls = NoPolls
    /\ delivered = <<>>

\* vector-memory.ts:128-151 with the point's id: the PUT of a background
\* rememberMessage ended; Qdrant keeps one point per id, the one put last.
UpsertPoint(task, id, ok) ==
    /\ task \in bg
    /\ bg' = bg \ {task}
    /\ archive' = IF ok THEN {r \in archive : r.id # id} \cup {Point(id, task)}
                  ELSE archive
    /\ UNCHANGED <<modelSupportsTools, store, summaries, usage, turn>>
    /\ UNCHANGED memVars

IsoNext ==
    \/ \E t \in Turns : ConcTurnStep(t)
    \/ \E task \in bg, id \in NewPointIds, ok \in BOOLEAN : UpsertPoint(task, id, ok)

\* Two turns side by side, their memory records written with their ids.
IsoSpec == IsoInit /\ [][IsoNext]_vars

\* The Memory Records of conversation c.
RecordsOfChat(arch, c) == {r \in arch : r.chatId = c}

\* The step leaves the rows, the Summary, the Facts and the Memory Records of
\* every conversation but c as they were.
OthersUntouched(c) ==
    \A d \in Chats \ {c} :
        /\ store'[d] = store[d]
        /\ getChatSummary(summaries', d) = getChatSummary(summaries, d)
        /\ RowsOfChat(facts', d) = RowsOfChat(facts, d)
        /\ RecordsOfChat(archive', d) = RecordsOfChat(archive, d)

C39_Step ==
    /\ \E c \in Chats : OthersUntouched(c)
    /\ \A t \in Turns : turn'[t] # turn[t] => OthersUntouched(turn'[t].chatId)
    /\ Len(facts') >= Len(facts)
    /\ SubSeq(facts', 1, Len(facts)) = facts
    /\ \A c \in Chats :
          getChatSummary(summaries', c) # getChatSummary(summaries, c) =>
              \E t \in Turns : SummarizationEnds(t) /\ turn[t].chatId = c

\* C39: conversations are isolated and Facts are append-only: no step taken
\* for a conversation (a turn's step, its summarization and prune, a
\* clearHistory, the write of one of its memory records) adds, changes or
\* deletes rows, Summaries, Facts or Memory Records of another conversation;
\* no step deletes or changes a Fact; and the Summary of a conversation
\* changes only when a summarization of it stores a digest.
C39_ConversationsIsolated == [][C39_Step]_vars


\* ======================================================= reminder scheduler
\* scheduler.ts: setInterval starts checkDueTasks every POLL_SECONDS, whether
\* or not the call before it has returned; a checkDueTasks call selects the
\* due tasks once and then awaits one send after the other.  Both transports
\* (bot.api.sendMessage, sendWhatsAppMessage) return or throw.
POLL_SECONDS == 60

\* The second reminder is due at the first firing of the timer or after it.
DueTimes == {POLL_SECONDS, 2 * POLL_SECONDS}

SchedInit ==
    /\ tools = AgentTools
    /\ modelSupportsTools = TRUE
    /\ store = [c \in Chats |-> <<>>]
    /\ summaries = {}
    /\ usage = [c \in Chats |-> <<>>]
    /\ archive = {}
    /\ bg = {}
    /\ turn = [t \in Turns |-> IdleTurn]
    /\ table = [rows |-> <<>>, seq |-> 0]
    /\ clock = 0
    /\ last = NoCall
    /\ bot = NoBot
    /\ facts = <<>>
    /\ \E at \in DueTimes :
          scheduled_tasks = scheduleTask(scheduleTask(<<>>, 1, "call mum", 0), 2, "call mum", at)
    /\ polls = NoPolls
    /\ delivered = <<>>

\* scheduler.ts:36-40: the uncompleted tasks scheduled at or before now.
DueTasks(ts, now) == SelectSeq(ts, LAMBDA r : r.is_completed = 0 /\ r.scheduled_at <= now)

\* scheduler.ts:61: UPDATE scheduled_tasks SET is_completed = 1 WHERE id = ?
MarkCompleted(ts, id) ==
    [i \in 1..Len(ts) |-> IF ts[i].id = id THEN [ts[i] EXCEPT !.is_completed = 1] ELSE ts[i]]

\* scheduler.ts:23-27 and 32-44: the timer fires POLL_SECONDS after its last
\* firing and checkDueTasks runs up to its first await, or returns when
\* nothing is due.
PollStarts(p) ==
    /\ polls[p].pc = "idle"
    /\ \A q \in 1..(p - 1) : polls[q].pc # "idle"
    /\ LET now == clock + POLL_SECONDS
           due == DueTasks(scheduled_tasks, now)
       IN  /\ clock' = now
           /\ polls' = [polls EXCEPT ![p] = IF due = <<>> THEN [pc |-> "done", due |-> <<>>]
                                            ELSE [pc |-> "sending", due |-> due]]
    /\ UNCHANGED <<tools, modelSupportsTools, store, summaries, usage, archive, bg, turn,
                   table, last, bot, facts, scheduled_tasks, delivered>>

\* scheduler.ts:46-67: the send awaited by poll p returned (ok) or threw;
\* then the for loop goes on to the next task of its list.
SendEnds(p, ok) ==
    /\ polls[p].pc = "sending"
    /\ LET task == Head(polls[p].due)
           rest == Tail(polls[p].due)
       IN  /\ delivered' = IF ok THEN Append(delivered, task.id) ELSE delivered
           /\ scheduled_tasks' = IF ok THEN MarkCompleted(scheduled_tasks, task.id)
                                 ELSE scheduled_tasks
           /\ polls' = [polls EXCEPT ![p] = IF rest = <<>> THEN [pc |-> "done", due |-> <<>>]
                                            ELSE [pc |-> "sending", due |-> rest]]
    /\ UNCHANGED <<tools, modelSupportsTools, store, summaries, usage, archive, bg, turn,
                   table, clock, last, bot, facts>>

SchedNext ==
    \/ \E p \in 1..MaxPolls : PollStarts(p)
    \/ \E p \in 1..MaxPolls, ok \in BOOLEAN : SendEnds(p, ok)

SchedSpec == SchedInit /\ [][SchedNext]_vars

\* The row of the task with this id.
TaskOf(ts, id) == ts[CHOOSE i \in 1..Len(ts) : ts[i].id = id]

\* The send of its first task that poll p awaits has succeeded in the step.
Delivers(p) == polls[p].pc = "sending" /\ Len(delivered') > Len(delivered)

C40_Step ==
    /\ \A i \in 1..Len(scheduled_tasks) :
          LET id == scheduled_tasks[i].id
          IN  /\ (TaskOf(scheduled_tasks, id).is_completed = 0
                  /\ TaskOf(scheduled_tasks', id).is_completed = 1)
                    => \E p \in 1..MaxPolls : Delivers(p) /\ Head(polls[p].due).id = id
              /\ TaskOf(scheduled_tasks, id).is_completed = 1
                    => TaskOf(scheduled_tasks', id).is_completed = 1
    /\ \A p \in 1..MaxPolls :
          (polls[p].pc = "sending" /\ polls'[p] # polls[p] /\ ~Delivers(p))
              => scheduled_tasks' = scheduled_tasks
    /\ \A p \in 1..MaxPolls :
          Delivers(p) => TaskOf(scheduled_tasks, Head(polls[p].due).id).is_completed = 0

\* C40: a task is marked completed only after its message was sent
\* successfully; a failed send leaves the task pending (a later poll selects
\* it again); and a task already marked completed is never sent again.
C40_CompletedAfterSendOnce == [][C40_Step]_vars


====
